---- MODULE Spec2Model ----
(***************************************************************************)
(* export_manager: the dataset / parcel lifecycle of                       *)
(* src/src/export_manager/dataset.py as a state machine.                   *)
(*                                                                         *)
(* A dataset is a directory holding config.toml, metrics.csv and the       *)
(* directories data/, incomplete/ and log/.  The state of the model is the *)
(* content of those files and directories, the clock, and a record of the  *)
(* last call of the API (its arguments, the state it started from, what it *)
(* returned or raised).  Every public method is one action; the helpers it *)
(* calls are operators that map a dataset state to a result               *)
(* [ds, ret, exc].                                                         *)
(***************************************************************************)
EXTENDS Integers, Sequences, FiniteSets, TLC

VARIABLES
    cfg,         \* config.toml as read by read_config
    now,         \* the clock, in seconds
    data,        \* the entries of data/
    incomplete,  \* the entries of incomplete/
    log,         \* the entries of log/
    metrics,     \* metrics.csv: header and rows in file order
    repo,        \* the git repository of the dataset: index, HEAD tree, commits
    inbox,       \* the files outside the dataset that the ingest globs match
    last,        \* the last API call: op, arguments, state before, outcome
    calls        \* the calls in progress, by caller: position and locals

vars == <<cfg, now, data, incomplete, log, metrics, repo, inbox, last, calls>>

----------------------------------------------------------------------------
(* Bounds of the model                                                     *)

\* The clock takes the values 0, TimeStep, ..., MaxStep * TimeStep.
MaxStep == 2
\* Clock bound of the process() scenario (specification SpecProcess).
MaxProcessStep == 5
\* The number of files waiting in the ingest directory is at most MaxInbox
MaxInbox == 2
\* The history of the repository is followed up to MaxCommits commits
MaxCommits == 3
\* A duration string holds at most MaxTokens quantities with their units
MaxTokens == 3

\* The clock steps of the lookup scenario: two parcel ids, one that clean()
\* removes and one that it keeps
MaxLookupStep == 1

(* Program constants                                                       *)

\* is_due(margin=timedelta(minutes=5)), in seconds
DefaultMarginSeconds == 300
\* '%M%S': the seconds field of a parcel id runs over 0..59
SecondsPerMinute == 60

\* Granularity of the modelled clock, in seconds: half of the default margin,
\* so that elapsed times below, at and above interval - margin all occur.
TimeStep == DefaultMarginSeconds \div 2

----------------------------------------------------------------------------
(* Parcel ids                                                              *)

\* A parcel id is a string of fixed-width, zero-padded fields, most
\* significant first ('%Y-%m-%dT%H%M%SZ').  The model keeps the last two
\* fields, <<minutes, seconds>>; the fields before them are equal for all
\* ids of the model.
None == <<>>

\* new_parcel_id(): strftime of the current time
new_parcel_id(t) == <<t \div SecondsPerMinute, t % SecondsPerMinute>>

\* parse_parcel_id(): strptime, the datetime of an id as seconds
parse_parcel_id(id) == id[1] * SecondsPerMinute + id[2]

\* str.__lt__ on two ids: the first differing field decides
RECURSIVE LexLessFrom(_, _, _)
LexLessFrom(a, b, i) ==
    IF i > Len(a) \/ i > Len(b) THEN Len(a) < Len(b)
    ELSE IF a[i] # b[i] THEN a[i] < b[i]
    ELSE LexLessFrom(a, b, i + 1)

LexLess(a, b) == LexLessFrom(a, b, 1)

Times(maxStep) == {k * TimeStep : k \in 0..maxStep}

\* The text of a parcel id, character by character: the model keeps the
\* four characters of the minutes and seconds fields.  A character the
\* pattern's \d matches is a decimal digit of some script: \d is matched
\* against a str, so it is not limited to the ASCII digits.
Digit(script, value) == [script |-> script, value |-> value]

\* ord(ch): the ASCII digits start at U+0030, the Arabic-Indic at U+0660
ord(ch) == (IF ch.script = "ascii" THEN 48 ELSE 1632) + ch.value

\* str.__lt__ on two texts: the first differing code point decides
RECURSIVE StrLessFrom(_, _, _)
StrLessFrom(a, b, i) ==
    IF i > Len(a) \/ i > Len(b) THEN Len(a) < Len(b)
    ELSE IF ord(a[i]) # ord(b[i]) THEN ord(a[i]) < ord(b[i])
    ELSE StrLessFrom(a, b, i + 1)

StrLess(a, b) == StrLessFrom(a, b, 1)

\* _PARCEL_ID_FORMAT.match on the text: two digits of minutes, two of seconds
PARCEL_ID_FORMAT(text) ==
    /\ Len(text) = 4
    /\ \A i \in 1..4 : text[i].script \in {"ascii", "arabic-indic"}

\* datetime.strptime on a text the pattern matches: int() reads the digits
\* of any script by their values; the datetime is given in seconds
strptime(text) ==
    LET minutes == 10 * text[1].value + text[2].value
        seconds == 10 * text[3].value + text[4].value
    IN IF minutes >= 60 \/ seconds >= SecondsPerMinute
       THEN [ret |-> None, exc |-> "ValueError"]
       ELSE [ret |-> minutes * SecondsPerMinute + seconds, exc |-> "ok"]

\* parse_parcel_id on a text
parse_parcel_id_text(text) ==
    IF ~PARCEL_ID_FORMAT(text)
    THEN [ret |-> None, exc |-> "ParcelIDFormat"]
    ELSE strptime(text)

\* sorted(ids): ascending in string order
RECURSIVE sorted(_)
sorted(S) ==
    IF S = {} THEN <<>>
    ELSE LET m == CHOOSE x \in S : \A y \in S \ {x} : LexLess(x, y)
         IN <<m>> \o sorted(S \ {m})

Range(s) == {s[i] : i \in 1..Len(s)}

----------------------------------------------------------------------------
(* Files                                                                   *)

\* An entry of data/ or incomplete/ is named <parcel id><ext>.  Path.stem
\* drops the last suffix only: the stem of <id>.tar.gz is <id>.tar.
Exts == {".txt", ".tar.gz"}

SuffixCount(ext) == IF ext = ".tar.gz" THEN 2 ELSE IF ext = "" THEN 0 ELSE 1

\* _PARCEL_ID_FORMAT.match(p.stem) for an entry <id><ext>
StemIsParcelId(ext) == SuffixCount(ext) <= 1

File(id, ext, files, bytes) ==
    [id |-> id, ext |-> ext, files |-> files, bytes |-> bytes]

LogFile(id, kind) == [id |-> id, kind |-> kind]

\* The dataset directory as one value
DS == [data |-> data, incomplete |-> incomplete, log |-> log,
       metrics |-> metrics, repo |-> repo, inbox |-> inbox]

SetDS(ds) ==
    /\ data' = ds.data
    /\ incomplete' = ds.incomplete
    /\ log' = ds.log
    /\ metrics' = ds.metrics
    /\ repo' = ds.repo
    /\ inbox' = ds.inbox

\* The result of a call: the dataset it leaves, what it returns, and the
\* exception it raises ("ok" when it returns normally).
R(ds, ret, exc) == [ds |-> ds, ret |-> ret, exc |-> exc]

\* _PARCEL_ID_FORMAT.match on an id given by a caller: the model keeps two
\* fields of an id, and a text the pattern does not match lacks one of them
\* or goes on after them
matches_format(id) == Len(id) = 2

\* A ParcelAccessor made without looking at the id
parcel_accessor_unchecked(id) == "ok"

\* DatasetAccessor.parcel_accessor(parcel_id): what constructing the
\* ParcelAccessor raises (parse_parcel_id in ParcelAccessor.__init__)
parcel_accessor(id) == IF matches_format(id) THEN "ok" ELSE "ParcelIDFormat"

\* A lookup that settles for one of several matches
find_parcel_data_path_first(parent, id) ==
    LET matches == {f \in parent : f.id = id}
    IN IF matches = {} THEN [found |-> FALSE, path |-> None, exc |-> "ok"]
       ELSE [found |-> TRUE, path |-> CHOOSE f \in matches : TRUE,
             exc |-> "ok"]

\* _find_parcel_data_path(parent, parcel_id): parent.glob(f'{parcel_id}*')
find_parcel_data_path(parent, id) ==
    LET matches == {f \in parent : f.id = id}
    IN IF matches = {} THEN [found |-> FALSE, path |-> None, exc |-> "ok"]
       ELSE IF Cardinality(matches) > 1
            THEN [found |-> FALSE, path |-> None, exc |-> "Ambiguous"]
            ELSE [found |-> TRUE, path |-> CHOOSE f \in matches : TRUE,
                  exc |-> "ok"]

\* ParcelAccessor.find_data / find_incomplete
find_data(ds, id) == find_parcel_data_path(ds.data, id)
find_incomplete(ds, id) == find_parcel_data_path(ds.incomplete, id)

\* ParcelAccessor.find_stdout / find_stderr
find_stdout(ds, id) == LogFile(id, "out") \in ds.log
find_stderr(ds, id) == LogFile(id, "err") \in ds.log

----------------------------------------------------------------------------
(* Configuration                                                           *)

\* config.toml.  An absent key is the empty sequence: keep is <<>> or <<n>>,
\* interval is a sequence of <quantity, unit> tokens, cmd is "" or the name
\* of a command, metrics is the sequence of the configured metric names.
\* file tells whether config.toml is a file.
Config(cmd, keep, interval) ==
    [cmd |-> cmd, keep |-> keep, interval |-> interval, git |-> FALSE,
     metrics |-> <<>>, ingest_paths |-> <<>>, time_source |-> "now",
     file |-> TRUE]

\* read_config that does not look whether config.toml is a file
read_config_unchecked(c) == "ok"

\* DatasetAccessor.read_config: what it raises
read_config(c) == IF c.file THEN "ok" ELSE "NotAFile"

\* DatasetAccessor.is_git
is_git(c) == c.git

\* What running the export command can do: its exit status and the
\* extensions of the entries it creates under $PARCEL_PATH in incomplete/.
Outcome(exit, exts) == [exit |-> exit, exts |-> exts]

CmdOutcomes(cmd) ==
    CASE cmd = "touch" -> {Outcome(0, {".txt"})}
      [] cmd = "false" -> {Outcome(1, {})}
      [] cmd = "flaky" -> {Outcome(0, {".txt"}), Outcome(0, {}),
                           Outcome(1, {".txt"}), Outcome(1, {})}
      [] cmd = "split" -> {Outcome(0, {".txt"}), Outcome(0, {".tar.gz"}),
                           Outcome(0, {".txt", ".tar.gz"})}
      [] cmd = "partial" -> {Outcome(0, {".txt"}), Outcome(1, {".txt"}),
                             Outcome(0, {".txt", ".tar.gz"})}
      [] OTHER -> {Outcome(0, {})}

----------------------------------------------------------------------------
(* Metrics table                                                           *)

\* _INITIAL_METRICS_CSV
INITIAL_METRICS_CSV ==
    [exists |-> TRUE, header |-> <<"parcel_id", "success", "files", "bytes">>,
     rows |-> <<>>]

\* A dict, as collect_metrics builds it, is a sequence of <<key, value>>
\* pairs in insertion order.
Keys(d) == [i \in 1..Len(d) |-> d[i][1]]

HasKey(d, k) == \E i \in 1..Len(d) : d[i][1] = k

Get(d, k, default) ==
    IF HasKey(d, k) THEN d[CHOOSE i \in 1..Len(d) : d[i][1] = k][2]
    ELSE default

\* DatasetAccessor.read_metrics: the rows of metrics.csv in file order, each
\* a function from the header's columns to values
read_metrics(ds) ==
    IF ~ds.metrics.exists THEN [rows |-> <<>>, exc |-> "ok"]
    ELSE LET rows == ds.metrics.rows
         IN IF \E i, j \in 1..Len(rows) :
                   i < j /\ rows[i]["parcel_id"] = rows[j]["parcel_id"]
            THEN [rows |-> <<>>, exc |-> "Corrupt"]
            ELSE [rows |-> rows, exc |-> "ok"]

MetricsIds(ds) == {ds.metrics.rows[i]["parcel_id"] : i \in 1..Len(ds.metrics.rows)}

\* The field order _update_metrics builds: the columns of the first stored
\* row, then every key of the updates not seen yet, in order.
RECURSIVE AppendNew(_, _)
AppendNew(order, keys) ==
    IF keys = <<>> THEN order
    ELSE AppendNew(IF Head(keys) \in Range(order) THEN order
                   ELSE Append(order, Head(keys)), Tail(keys))

RECURSIVE field_order(_, _)
field_order(order, updates) ==
    IF updates = <<>> THEN order
    ELSE field_order(AppendNew(order, Keys(Head(updates))), Tail(updates))

\* _update_metrics that merges an update into the stored row field by field
update_metrics_write_merging(ds, old, updates, order, ids) ==
    LET updIds == {Get(updates[i], "parcel_id", None) : i \in 1..Len(updates)}
        oldIds == {old[i]["parcel_id"] : i \in 1..Len(old)}
        LastUpd(id) ==
            updates[CHOOSE i \in 1..Len(updates) :
                       /\ Get(updates[i], "parcel_id", None) = id
                       /\ \A j \in (i + 1)..Len(updates) :
                              Get(updates[j], "parcel_id", None) # id]
        OldRow(id) == old[CHOOSE i \in 1..Len(old) : old[i]["parcel_id"] = id]
        OldValue(id, c) ==
            IF id \in oldIds /\ c \in DOMAIN OldRow(id) THEN OldRow(id)[c]
            ELSE ""
        Written(id) ==
            [c \in Range(order) |->
                IF id \in updIds /\ HasKey(LastUpd(id), c)
                THEN Get(LastUpd(id), c, "")
                ELSE OldValue(id, c)]
    IN R([ds EXCEPT !.metrics =
              [exists |-> TRUE, header |-> order,
               rows |-> [i \in 1..Len(ids) |-> Written(ids[i])]]],
         None, "ok")

\* The rows _update_metrics writes: old is what read_metrics returned, order
\* the fieldnames and ids the sorted parcel ids of old rows and updates
update_metrics_write(ds, old, updates, order, ids) ==
    LET updIds == {Get(updates[i], "parcel_id", None) : i \in 1..Len(updates)}
        \* metrics[row['parcel_id']] = row: the last update of an id wins
        LastUpd(id) ==
            updates[CHOOSE i \in 1..Len(updates) :
                       /\ Get(updates[i], "parcel_id", None) = id
                       /\ \A j \in (i + 1)..Len(updates) :
                              Get(updates[j], "parcel_id", None) # id]
        OldRow(id) == old[CHOOSE i \in 1..Len(old) : old[i]["parcel_id"] = id]
        \* DictWriter: a column the row lacks is written as ''
        Written(id) ==
            [c \in Range(order) |->
                IF id \in updIds THEN Get(LastUpd(id), c, "")
                ELSE IF c \in DOMAIN OldRow(id) THEN OldRow(id)[c] ELSE ""]
    IN R([ds EXCEPT !.metrics =
              [exists |-> TRUE, header |-> order,
               rows |-> [i \in 1..Len(ids) |-> Written(ids[i])]]],
         None, "ok")

\* _update_metrics that appends the rows of the updates to the stored rows
update_metrics_read_appending(ds, rd, updates) ==
    IF rd.exc # "ok" THEN R(ds, None, rd.exc)
    ELSE R([ds EXCEPT !.metrics =
               [exists |-> TRUE, header |-> ds.metrics.header,
                rows |-> rd.rows \o
                    [i \in 1..Len(updates) |->
                        [c \in Range(ds.metrics.header) |->
                            Get(updates[i], c, "")]]]],
           None, "ok")

\* _update_metrics that takes its columns from the updates alone
update_metrics_read_fresh(ds, rd, updates) ==
    IF rd.exc # "ok" THEN R(ds, None, rd.exc)
    ELSE update_metrics_write(
             ds, rd.rows, updates, field_order(<<>>, updates),
             sorted({rd.rows[i]["parcel_id"] : i \in 1..Len(rd.rows)}
                    \cup {Get(updates[i], "parcel_id", None) :
                             i \in 1..Len(updates)}))

\* _update_metrics that writes the rows in descending order
update_metrics_read_descending(ds, rd, updates) ==
    IF rd.exc # "ok" THEN R(ds, None, rd.exc)
    ELSE LET q == sorted({rd.rows[i]["parcel_id"] : i \in 1..Len(rd.rows)}
                         \cup {Get(updates[i], "parcel_id", None) :
                                  i \in 1..Len(updates)})
         IN update_metrics_write(
                ds, rd.rows, updates,
                field_order(IF rd.rows = <<>> THEN <<>>
                            ELSE ds.metrics.header, updates),
                [i \in 1..Len(q) |-> q[Len(q) + 1 - i]])

\* _update_metrics once read_metrics has returned rd
update_metrics_read(ds, rd, updates) ==
    IF rd.exc # "ok" THEN R(ds, None, rd.exc)
    ELSE update_metrics_write(
             ds, rd.rows, updates,
             field_order(IF rd.rows = <<>> THEN <<>> ELSE ds.metrics.header,
                         updates),
             sorted({rd.rows[i]["parcel_id"] : i \in 1..Len(rd.rows)}
                    \cup {Get(updates[i], "parcel_id", None) :
                             i \in 1..Len(updates)}))

\* DatasetAccessor._update_metrics(updates): updates is the sequence of the
\* dicts of the updates mapping, in its order
update_metrics(ds, updates) ==
    IF updates = <<>> THEN R(ds, None, "ok")
    ELSE update_metrics_read(ds, read_metrics(ds), updates)

----------------------------------------------------------------------------
(* Commit sink                                                             *)

\* A tree of the repository: the blob of metrics.csv and of config.toml
\* (<<>> when the path is not in the tree), whether .gitignore is in it,
\* and the entries of data/.
EmptyTree == [metrics |-> <<>>, config |-> <<>>, gitignore |-> FALSE,
              data |-> {}]

NoRepo == [exists |-> FALSE, index |-> EmptyTree, head |-> EmptyTree,
           commits |-> <<>>]

\* A list of paths given to _commit: which of metrics.csv, config.toml and
\* .gitignore it names, and the entries of data/ it names.
Paths(m, c, g, d) == [metrics |-> m, config |-> c, gitignore |-> g, data |-> d]

NoPaths == Paths(FALSE, FALSE, FALSE, {})

\* repo.is_dirty(): the index differs from HEAD, or a tracked file of the
\* working tree differs from the index
is_dirty(ds, c) ==
    \/ ds.repo.index # ds.repo.head
    \/ ds.repo.index.metrics # <<>> /\ ds.repo.index.metrics # <<ds.metrics>>
    \/ ds.repo.index.config # <<>> /\ ds.repo.index.config # <<c>>
    \/ \E f \in ds.repo.index.data : f \notin ds.data

\* DatasetAccessor._commit(message, add, rm=rm)
commit(ds, c, message, add, rm) ==
    IF ~is_git(c) THEN ds
    ELSE
    LET i0 == ds.repo.index
        i1 == [metrics |-> IF add.metrics THEN <<ds.metrics>> ELSE i0.metrics,
               config |-> IF add.config THEN <<c>> ELSE i0.config,
               gitignore |-> add.gitignore \/ i0.gitignore,
               data |-> i0.data \cup add.data]
        i2 == [i1 EXCEPT !.data = i1.data \ rm.data]
        staged == [ds EXCEPT !.repo.index = i2]
    IN IF is_dirty(staged, c)
       THEN [staged EXCEPT !.repo.head = i2,
                           !.repo.commits = Append(ds.repo.commits, message)]
       ELSE staged

\* interval = "10 m", as the tokens parse_delta reads
TenMinutes == << <<10, "m">> >>

\* What initialize(git=True) writes as config.toml when there is none:
\* _DEFAULT_CONFIG_TOML, every key of it commented out, and git = true
DefaultGitConfig == [Config("", <<>>, <<>>) EXCEPT !.git = TRUE]

\* The end of initialize(git=True): the repository is created and
\* .gitignore, config.toml (holding c) and metrics.csv are committed
initialize_git(ds, c) ==
    commit([ds EXCEPT !.repo.exists = TRUE], c, <<"initialize", None>>,
           Paths(TRUE, TRUE, TRUE, {}), NoPaths)

\* What initialize() writes as config.toml when there is none:
\* _DEFAULT_CONFIG_TOML, every key of it commented out
DefaultConfig == Config("", <<>>, <<>>)

\* initialize that writes config.toml and metrics.csv anew
initialize_overwriting(ds, c, git) ==
    LET c1 == IF git THEN DefaultGitConfig ELSE DefaultConfig
        d1 == [ds EXCEPT !.metrics = INITIAL_METRICS_CSV]
    IN [ds |-> IF git THEN initialize_git(d1, c1) ELSE d1, cfg |-> c1,
        ret |-> None, exc |-> "ok"]

\* DatasetAccessor.initialize(git=git): the directories are kept as they
\* are (mkdir(exist_ok=True)), config.toml and metrics.csv are written only
\* when missing, and with git the repository is created when missing and
\* the three files are committed; the result holds the dataset and the
\* configuration it leaves
initialize(ds, c, git) ==
    LET c1 == IF c.file THEN c
              ELSE IF git THEN DefaultGitConfig ELSE DefaultConfig
        d1 == IF ds.metrics.exists THEN ds
              ELSE [ds EXCEPT !.metrics = INITIAL_METRICS_CSV]
    IN [ds |-> IF git THEN initialize_git(d1, c1) ELSE d1, cfg |-> c1,
        ret |-> None, exc |-> "ok"]

----------------------------------------------------------------------------
(* Parcels                                                                 *)

\* is_known that looks for complete data only
is_known_by_data(ds, id) ==
    LET d == find_data(ds, id)
    IN IF d.exc # "ok" THEN [ret |-> FALSE, exc |-> d.exc]
       ELSE [ret |-> d.found, exc |-> "ok"]

\* is_known that does not look into metrics.csv
is_known_by_artifacts(ds, id) ==
    LET d == find_data(ds, id)
        i == find_incomplete(ds, id)
    IN IF d.exc # "ok" THEN [ret |-> FALSE, exc |-> d.exc]
       ELSE IF d.found THEN [ret |-> TRUE, exc |-> "ok"]
       ELSE IF i.exc # "ok" THEN [ret |-> FALSE, exc |-> i.exc]
       ELSE [ret |-> i.found \/ find_stdout(ds, id) \/ find_stderr(ds, id),
             exc |-> "ok"]

\* ParcelAccessor.is_known: the operands of `or` are evaluated in order and
\* only until one is true
is_known(ds, id) ==
    LET d == find_data(ds, id)
        i == find_incomplete(ds, id)
        m == read_metrics(ds)
    IN IF d.exc # "ok" THEN [ret |-> FALSE, exc |-> d.exc]
       ELSE IF d.found THEN [ret |-> TRUE, exc |-> "ok"]
       ELSE IF i.exc # "ok" THEN [ret |-> FALSE, exc |-> i.exc]
       ELSE IF i.found \/ find_stdout(ds, id) \/ find_stderr(ds, id)
            THEN [ret |-> TRUE, exc |-> "ok"]
       ELSE IF m.exc # "ok" THEN [ret |-> FALSE, exc |-> m.exc]
       ELSE [ret |-> \E k \in 1..Len(m.rows) : m.rows[k]["parcel_id"] = id,
             exc |-> "ok"]

Reverse(q) == [i \in 1..Len(q) |-> q[Len(q) + 1 - i]]

\* find_parcel_ids with the list in descending order
find_parcel_ids_descending(ds) ==
    Reverse(sorted({f.id : f \in {g \in ds.data : StemIsParcelId(g.ext)}}
                   \cup {f.id : f \in {g \in ds.incomplete : StemIsParcelId(g.ext)}}
                   \cup {l.id : l \in ds.log}))

\* DatasetAccessor.find_parcel_ids: the stems of the entries of data/,
\* incomplete/ and log/ that have the form of a parcel id, sorted
find_parcel_ids(ds) ==
    sorted({f.id : f \in {g \in ds.data : StemIsParcelId(g.ext)}}
           \cup {f.id : f \in {g \in ds.incomplete : StemIsParcelId(g.ext)}}
           \cup {l.id : l \in ds.log})

\* What subprocess.check_output met running a metric's command: the exit
\* status and the output, stripped
MetricOutcome(exit, out) == [exit |-> exit, out |-> out]

\* A metric recorded whatever its command's exit status
metric_value_ignoring_exit(m) == m.out

\* The value _collect_metrics records for a metric: check_output raises on a
\* nonzero exit and the handler records the sentinel
metric_value(m) == IF m.exit = 0 THEN m.out ELSE "ERROR"

\* _collect_metrics that measures complete data only
collect_metrics_complete_only(ds, c, id, mres) ==
    LET d == find_data(ds, id)
        base == << <<"parcel_id", id>>,
                   <<"success", IF d.found THEN "Y" ELSE "N">> >>
        sizes == << <<"files", ToString(d.path.files)>>,
                    <<"bytes", ToString(d.path.bytes)>> >>
        custom == [k \in 1..Len(c.metrics) |->
                      <<c.metrics[k], metric_value(mres[c.metrics[k]])>>]
    IN IF d.exc # "ok" THEN [ret |-> <<>>, exc |-> d.exc]
       ELSE IF d.found
            THEN [ret |-> base \o sizes \o custom, exc |-> "ok"]
            ELSE [ret |-> base, exc |-> "ok"]

\* DatasetAccessor._collect_metrics(parcel_id); mres gives, for every
\* configured metric, the outcome of its command
collect_metrics(ds, c, id, mres) ==
    LET d == find_data(ds, id)
        i == find_parcel_data_path(ds.incomplete, id)
        base == << <<"parcel_id", id>>,
                   <<"success", IF d.found THEN "Y" ELSE "N">> >>
        path == IF d.found THEN d.path ELSE i.path
        sizes == << <<"files", ToString(path.files)>>,
                    <<"bytes", ToString(path.bytes)>> >>
        custom == [k \in 1..Len(c.metrics) |->
                      <<c.metrics[k], metric_value(mres[c.metrics[k]])>>]
    IN IF parcel_accessor(id) # "ok"
       THEN [ret |-> <<>>, exc |-> parcel_accessor(id)]
       ELSE IF d.exc # "ok" THEN [ret |-> <<>>, exc |-> d.exc]
       ELSE IF ~d.found /\ i.exc # "ok" THEN [ret |-> <<>>, exc |-> i.exc]
       ELSE IF d.found \/ i.found
            THEN IF read_config(c) # "ok"
                 THEN [ret |-> <<>>, exc |-> read_config(c)]
                 ELSE [ret |-> base \o sizes \o custom, exc |-> "ok"]
            ELSE [ret |-> base, exc |-> "ok"]

\* DatasetAccessor._process_metrics(parcel_ids): the dict comprehension keeps
\* one entry per id, at the place of its first occurrence
RECURSIVE Dedup(_)
Dedup(ids) ==
    IF ids = <<>> THEN <<>>
    ELSE LET rest == Dedup(SubSeq(ids, 1, Len(ids) - 1))
             x == ids[Len(ids)]
         IN IF x \in Range(rest) THEN rest ELSE Append(rest, x)

\* _process_metrics once every parcel's metrics are collected: the first
\* _collect_metrics that raised ends it, otherwise the rows are written
process_metrics_collected(ds, each) ==
    IF \E k \in 1..Len(each) : each[k].exc # "ok"
    THEN R(ds, None,
           each[CHOOSE k \in 1..Len(each) :
                   /\ each[k].exc # "ok"
                   /\ \A j \in 1..(k - 1) : each[j].exc = "ok"].exc)
    ELSE update_metrics(ds, [k \in 1..Len(each) |-> each[k].ret])

process_metrics_each(ds, c, keys, mres) ==
    process_metrics_collected(
        ds, [k \in 1..Len(keys) |-> collect_metrics(ds, c, keys[k], mres)])

\* _process_metrics that leaves alone the ids that already have a row
process_metrics_new_only(ds, c, ids, mres) ==
    LET NotStored(id) == id \notin MetricsIds(ds)
    IN process_metrics_each(ds, c, SelectSeq(Dedup(ids), NotStored), mres)

process_metrics(ds, c, ids, mres) ==
    process_metrics_each(ds, c, Dedup(ids), mres)

\* reprocess_metrics once _process_metrics has returned r
reprocess_metrics_commit(r, c, ids) ==
    IF r.exc # "ok" THEN r
    ELSE R(commit(r.ds, c, <<"reprocess metrics", ids>>,
                  Paths(TRUE, FALSE, FALSE, {}), NoPaths),
           None, "ok")

\* DatasetAccessor.reprocess_metrics(parcel_ids)
reprocess_metrics(ds, c, ids, mres) ==
    reprocess_metrics_commit(process_metrics(ds, c, ids, mres), c, ids)

----------------------------------------------------------------------------
(* Export                                                                  *)

\* _run_export that copies the produced entry into data/ instead of renaming
run_export_copying(ds, c, id, o) ==
    LET known == is_known(ds, id)
        logged == [ds EXCEPT !.log = ds.log \cup {LogFile(id, "out"),
                                                  LogFile(id, "err")}]
        ran == [logged EXCEPT !.incomplete =
                   logged.incomplete \cup {File(id, e, 1, 0) : e \in o.exts}]
        oldpath == find_parcel_data_path(ran.incomplete, id)
    IN IF known.exc # "ok" THEN R(ds, None, known.exc)
       ELSE IF known.ret THEN R(ds, None, "ParcelExists")
       ELSE IF c.cmd = "" THEN R(ds, None, "ok")
       ELSE IF o.exit # 0 THEN R(ran, None, "CalledProcessError")
       ELSE IF oldpath.exc # "ok" THEN R(ran, None, oldpath.exc)
       ELSE IF ~oldpath.found THEN R(ran, None, "NoData")
       ELSE R([ran EXCEPT !.data = ran.data \cup {oldpath.path}], id, "ok")

\* _run_export that does not check the command's exit status
run_export_ignoring_exit(ds, c, id, o) ==
    LET known == is_known(ds, id)
        logged == [ds EXCEPT !.log = ds.log \cup {LogFile(id, "out"),
                                                  LogFile(id, "err")}]
        ran == [logged EXCEPT !.incomplete =
                   logged.incomplete \cup {File(id, e, 1, 0) : e \in o.exts}]
        oldpath == find_parcel_data_path(ran.incomplete, id)
    IN IF known.exc # "ok" THEN R(ds, None, known.exc)
       ELSE IF known.ret THEN R(ds, None, "ParcelExists")
       ELSE IF c.cmd = "" THEN R(ds, None, "ok")
       ELSE IF oldpath.exc # "ok" THEN R(ran, None, oldpath.exc)
       ELSE IF ~oldpath.found THEN R(ran, None, "NoData")
       ELSE R([ran EXCEPT !.incomplete = ran.incomplete \ {oldpath.path},
                          !.data = ran.data \cup {oldpath.path}],
              id, "ok")

\* _run_export that opens the log files before it looks for a command
run_export_logging_first(ds, c, id, o) ==
    LET known == is_known(ds, id)
        logged == [ds EXCEPT !.log = ds.log \cup {LogFile(id, "out"),
                                                  LogFile(id, "err")}]
        ran == [logged EXCEPT !.incomplete =
                   logged.incomplete \cup {File(id, e, 1, 0) : e \in o.exts}]
        oldpath == find_parcel_data_path(ran.incomplete, id)
    IN IF known.exc # "ok" THEN R(ds, None, known.exc)
       ELSE IF known.ret THEN R(ds, None, "ParcelExists")
       ELSE IF c.cmd = "" THEN R(logged, None, "ok")
       ELSE IF o.exit # 0 THEN R(ran, None, "CalledProcessError")
       ELSE IF oldpath.exc # "ok" THEN R(ran, None, oldpath.exc)
       ELSE IF ~oldpath.found THEN R(ran, None, "NoData")
       ELSE R([ran EXCEPT !.incomplete = ran.incomplete \ {oldpath.path},
                          !.data = ran.data \cup {oldpath.path}],
              id, "ok")

\* DatasetAccessor._run_export(parcel_id); o is what the command does
run_export(ds, c, id, o) ==
    LET known == is_known(ds, id)
        logged == [ds EXCEPT !.log = ds.log \cup {LogFile(id, "out"),
                                                  LogFile(id, "err")}]
        ran == [logged EXCEPT !.incomplete =
                   logged.incomplete \cup {File(id, e, 1, 0) : e \in o.exts}]
        oldpath == find_parcel_data_path(ran.incomplete, id)
    IN IF parcel_accessor(id) # "ok" THEN R(ds, None, parcel_accessor(id))
       ELSE IF known.exc # "ok" THEN R(ds, None, known.exc)
       ELSE IF known.ret THEN R(ds, None, "ParcelExists")
       ELSE IF read_config(c) # "ok" THEN R(ds, None, read_config(c))
       ELSE IF c.cmd = "" THEN R(ds, None, "ok")
       ELSE IF o.exit # 0 THEN R(ran, None, "CalledProcessError")
       ELSE IF oldpath.exc # "ok" THEN R(ran, None, oldpath.exc)
       ELSE IF ~oldpath.found THEN R(ran, None, "NoData")
       ELSE R([ran EXCEPT !.incomplete = ran.incomplete \ {oldpath.path},
                          !.data = ran.data \cup {oldpath.path}],
              id, "ok")

\* perform_export once _process_metrics has returned m
perform_export_commit(m, dp, c, id) ==
    IF m.exc # "ok" THEN R(m.ds, None, m.exc)
    ELSE IF dp.exc # "ok" THEN R(m.ds, None, dp.exc)
    ELSE R(commit(m.ds, c, <<"add new export", id>>,
                  Paths(TRUE, FALSE, FALSE,
                        IF dp.found THEN {dp.path} ELSE {}),
                  NoPaths),
           id, "ok")

perform_export_record(m, c, id) ==
    perform_export_commit(m, find_data(m.ds, id), c, id)

\* perform_export once _run_export has returned e
perform_export_exported(e, c, id, mres) ==
    IF e.exc # "ok" THEN e
    ELSE IF e.ret = None
         THEN R(commit(e.ds, c, <<"add new export", None>>, NoPaths, NoPaths),
                None, "ok")
    ELSE perform_export_record(process_metrics(e.ds, c, <<id>>, mres), c, id)

\* DatasetAccessor.perform_export(parcel_id)
perform_export(ds, c, id, o, mres) ==
    perform_export_exported(run_export(ds, c, id, o), c, id, mres)

----------------------------------------------------------------------------
(* Scheduling                                                              *)

\* _UNITS: the unit an abbreviation stands for
UNITS(u) ==
    CASE u \in {"w", "wk", "week", "weeks"} -> "weeks"
      [] u \in {"d", "day", "days"} -> "days"
      [] u \in {"h", "hour", "hours", "hr"} -> "hours"
      [] u \in {"m", "min", "mins", "minute", "minutes"} -> "minutes"
      [] u \in {"s", "sec", "secs", "second", "seconds"} -> "seconds"

\* timedelta(weeks=, days=, hours=, minutes=, seconds=), in seconds
UnitSeconds(unit) ==
    CASE unit = "weeks" -> 604800
      [] unit = "days" -> 86400
      [] unit = "hours" -> 3600
      [] unit = "minutes" -> 60
      [] unit = "seconds" -> 1

UnitNames == <<"weeks", "days", "hours", "minutes", "seconds">>

\* _PART_RE.findall(s): s is the sequence of the <<quantity, unit>> tokens of
\* the string as written.  The alternation of _UNIT_PATTERN is tried in the
\* order of _UNITS, so of a written unit the match takes the first
\* alternative that begins it, its one-letter abbreviation
findall(s) ==
    [k \in 1..Len(s) |->
        <<s[k][1],
          CASE UNITS(s[k][2]) = "weeks" -> "w"
            [] UNITS(s[k][2]) = "days" -> "d"
            [] UNITS(s[k][2]) = "hours" -> "h"
            [] UNITS(s[k][2]) = "minutes" -> "m"
            [] UNITS(s[k][2]) = "seconds" -> "s">>]

\* The loop of parse_delta adding up the quantities of a repeated unit
RECURSIVE parse_units_accumulating(_, _)
parse_units_accumulating(units, tokens) ==
    IF tokens = <<>> THEN units
    ELSE parse_units_accumulating(
             [units EXCEPT ![UNITS(Head(tokens)[2])] = @ + Head(tokens)[1]],
             Tail(tokens))

\* The loop of parse_delta over the matches:
\* units[_UNITS[unit]] = float(qty) for each in turn
RECURSIVE parse_units(_, _)
parse_units(units, tokens) ==
    IF tokens = <<>> THEN units
    ELSE parse_units([units EXCEPT ![UNITS(Head(tokens)[2])] = Head(tokens)[1]],
                     Tail(tokens))

RECURSIVE SumUnits(_, _)
SumUnits(units, k) ==
    IF k = 0 THEN 0
    ELSE units[UnitNames[k]] * UnitSeconds(UnitNames[k]) + SumUnits(units, k - 1)

\* _interval.parse_delta(s), a timedelta in seconds
parse_delta(s) ==
    SumUnits(parse_units([u \in Range(UnitNames) |-> 0], findall(s)),
             Len(UnitNames))

\* is_due that looks at the parcels before it looks at the interval
is_due_parcels_first(ds, c, t, margin) ==
    LET ids == find_parcel_ids(ds)
        delta == parse_delta(c.interval) - margin
    IN IF ids = <<>> THEN TRUE
       ELSE IF c.interval = <<>> THEN FALSE
       ELSE t - parse_parcel_id(ids[Len(ids)]) >= delta

\* is_due that is due only after more than interval - margin
is_due_strict(ds, c, t, margin) ==
    LET ids == find_parcel_ids(ds)
        delta == parse_delta(c.interval) - margin
    IN IF c.interval = <<>> THEN FALSE
       ELSE IF ids = <<>> THEN TRUE
       ELSE t - parse_parcel_id(ids[Len(ids)]) > delta

\* DatasetAccessor.is_due(margin) at time t
\* is_due that takes the newest complete parcel as the last one
is_due_complete_only(ds, c, t, margin) ==
    LET ids == sorted({f.id : f \in {g \in ds.data : StemIsParcelId(g.ext)}})
        delta == parse_delta(c.interval) - margin
    IN IF c.interval = <<>> THEN FALSE
       ELSE IF ids = <<>> THEN TRUE
       ELSE t - parse_parcel_id(ids[Len(ids)]) >= delta

is_due(ds, c, t, margin) ==
    LET ids == find_parcel_ids(ds)
        delta == parse_delta(c.interval) - margin
    IN IF c.interval = <<>> THEN FALSE
       ELSE IF ids = <<>> THEN TRUE
       ELSE t - parse_parcel_id(ids[Len(ids)]) >= delta

----------------------------------------------------------------------------
(* Retention                                                               *)

\* The body of the while loop of _clean, for the list of parcels left
RECURSIVE clean_loop(_, _, _, _)
clean_loop(ds, parcels, keep, rm) ==
    IF ~(Len(parcels) > keep) THEN R(ds, rm, "ok")
    ELSE IF parcels = <<>> THEN R(ds, rm, "IndexError")
    ELSE
    LET p == Head(parcels)
        d1 == [ds EXCEPT !.log = ds.log \ {LogFile(p, "out"), LogFile(p, "err")}]
        inc == find_incomplete(d1, p)
        d2 == IF inc.found
              THEN [d1 EXCEPT !.incomplete = d1.incomplete \ {inc.path}]
              ELSE d1
        complete == find_data(d2, p)
        d3 == IF complete.found
              THEN [d2 EXCEPT !.data = d2.data \ {complete.path}]
              ELSE d2
    IN IF inc.exc # "ok" THEN R(d1, rm, inc.exc)
       ELSE IF complete.exc # "ok" THEN R(d2, rm, complete.exc)
       ELSE clean_loop(d3, Tail(parcels), keep,
                       IF complete.found THEN rm \cup {complete.path} ELSE rm)

\* _clean that counts and removes complete parcels only
clean_inner_complete_only(ds, c) ==
    LET IsComplete(id) == find_data(ds, id).found
    IN IF c.keep = <<>> \/ c.keep[1] = 0 THEN R(ds, {}, "ok")
       ELSE clean_loop(ds, SelectSeq(find_parcel_ids(ds), IsComplete),
                       c.keep[1], {})

\* DatasetAccessor._clean: returns the removed entries of data/
clean_inner(ds, c) ==
    IF c.keep = <<>> \/ c.keep[1] = 0 THEN R(ds, {}, "ok")
    ELSE clean_loop(ds, find_parcel_ids(ds), c.keep[1], {})

\* clean that also drops the metrics rows of the parcels it removed
clean_dropping_rows(ds, c) ==
    LET r == clean_inner(ds, c)
        left == Range(find_parcel_ids(r.ds))
        keptRows == {i \in 1..Len(ds.metrics.rows) :
                        ds.metrics.rows[i]["parcel_id"] \in left}
        RECURSIVE Pick(_)
        Pick(i) == IF i > Len(ds.metrics.rows) THEN <<>>
                   ELSE IF i \in keptRows
                        THEN <<ds.metrics.rows[i]>> \o Pick(i + 1)
                        ELSE Pick(i + 1)
    IN R([r.ds EXCEPT !.metrics.rows = Pick(1)], None, r.exc)

\* clean once _clean has returned r: the removed data is committed
clean_commit(r, c) ==
    IF r.exc # "ok" THEN R(r.ds, None, r.exc)
    ELSE IF r.ret # {}
         THEN R(commit(r.ds, c, <<"clean", None>>, NoPaths,
                       Paths(FALSE, FALSE, FALSE, r.ret)), None, "ok")
         ELSE R(r.ds, None, "ok")

\* DatasetAccessor.clean
clean(ds, c) == clean_commit(clean_inner(ds, c), c)

----------------------------------------------------------------------------
(* Ingestion                                                               *)

\* DatasetAccessor._ingest_path(path, parcel_id): path is an entry of inbox
\* _ingest_path that replaces the data of a known parcel
ingest_path_inner_replacing(ds, path, id) ==
    IF path \notin ds.inbox THEN R(ds, None, "FileNotFoundError")
    ELSE R([ds EXCEPT !.inbox = ds.inbox \ {path},
                      !.data = {f \in ds.data : f.id # id} \cup
                          {File(id, path.suffix, path.files, path.bytes)}],
           None, "ok")

\* _ingest_path that copies the source into incomplete/
ingest_path_inner_copying(ds, path, id) ==
    LET known == is_known(ds, id)
    IN IF known.exc # "ok" THEN R(ds, None, known.exc)
       ELSE IF known.ret THEN R(ds, None, "ParcelExists")
       ELSE IF path \notin ds.inbox THEN R(ds, None, "FileNotFoundError")
       ELSE R([ds EXCEPT !.incomplete = ds.incomplete \cup
                             {File(id, path.suffix, path.files, path.bytes)}],
              None, "ok")

\* _ingest_path without the is_known() guard
ingest_path_inner_unguarded(ds, path, id) ==
    IF parcel_accessor(id) # "ok" THEN R(ds, None, parcel_accessor(id))
    ELSE IF path \notin ds.inbox THEN R(ds, None, "FileNotFoundError")
    ELSE R([ds EXCEPT !.inbox = ds.inbox \ {path},
                      !.data = ds.data \cup
                          {File(id, path.suffix, path.files, path.bytes)}],
           None, "ok")

ingest_path_inner(ds, path, id) ==
    LET known == is_known(ds, id)
    IN IF parcel_accessor(id) # "ok" THEN R(ds, None, parcel_accessor(id))
       ELSE IF known.exc # "ok" THEN R(ds, None, known.exc)
       ELSE IF known.ret THEN R(ds, None, "ParcelExists")
       ELSE IF path \notin ds.inbox THEN R(ds, None, "FileNotFoundError")
       ELSE R([ds EXCEPT !.inbox = ds.inbox \ {path},
                         !.data = ds.data \cup
                             {File(id, path.suffix, path.files, path.bytes)}],
              None, "ok")

\* The for loop of _run_ingest over the paths found; acc is parcel_ids
RECURSIVE ingest_loop(_, _, _, _, _)
ingest_loop(ds, c, t, found, acc) ==
    IF found = <<>> THEN R(ds, acc, "ok")
    ELSE LET path == Head(found)
             id == IF c.time_source = "mtime" THEN new_parcel_id(path.mtime)
                   ELSE new_parcel_id(t)
             r == ingest_path_inner(ds, path, id)
         IN IF r.exc # "ok" THEN R(r.ds, acc, r.exc)
            ELSE ingest_loop(r.ds, c, t, Tail(found), Append(acc, <<id, path>>))

\* DatasetAccessor._run_ingest; found lists the matches of the globs in the
\* order glob returns them
run_ingest(ds, c, t, found) ==
    IF read_config(c) # "ok" THEN R(ds, <<>>, read_config(c))
    ELSE IF c.ingest_paths = <<>> THEN R(ds, <<>>, "ok")
    ELSE IF c.time_source \notin {"mtime", "now"}
         THEN R(ds, <<>>, "InvalidTimeSource")
    ELSE ingest_loop(ds, c, t, found, <<>>)

\* ingest_path once reprocess_metrics has returned m
ingest_path_commit(m, dp, c, id) ==
    IF m.exc # "ok" THEN m
    ELSE IF dp.exc # "ok" THEN R(m.ds, None, dp.exc)
    ELSE R(commit(m.ds, c, <<"ingest", id>>,
                  Paths(TRUE, FALSE, FALSE, {dp.path}), NoPaths),
           None, "ok")

ingest_path_record(m, c, id) ==
    ingest_path_commit(m, find_data(m.ds, id), c, id)

\* ingest_path once _ingest_path has returned i
ingest_path_moved(i, c, id, mres) ==
    IF i.exc # "ok" THEN i
    ELSE ingest_path_record(reprocess_metrics(i.ds, c, <<id>>, mres), c, id)

\* DatasetAccessor.ingest_path(path, parcel_id)
ingest_path(ds, c, path, id, mres) ==
    ingest_path_moved(ingest_path_inner(ds, path, id), c, id, mres)

----------------------------------------------------------------------------
(* Orchestration                                                           *)

\* The data/ entries process() stages: find_data of every new parcel id
AddedData(ds, ids) ==
    {find_data(ds, ids[k]).path :
        k \in {j \in 1..Len(ids) : find_data(ds, ids[j]).found}}

\* process() once the metrics of the new parcels are processed (m): the new
\* data is committed
process_commit(m, parcel_ids, errors, c) ==
    IF \E k \in 1..Len(parcel_ids) : find_data(m.ds, parcel_ids[k]).exc # "ok"
    THEN R(m.ds, [ids |-> <<>>, errors |-> <<>>], "Ambiguous")
    ELSE R(commit(m.ds, c, <<"process new parcels", parcel_ids>>,
                  Paths(TRUE, FALSE, FALSE, AddedData(m.ds, parcel_ids)),
                  NoPaths),
           [ids |-> parcel_ids,
            errors |-> IF m.exc # "ok" THEN Append(errors, m.exc) ELSE errors],
           "ok")

\* process() that commits without processing the metrics
process_record_skipping(ds, parcel_ids, errors, c, mres) ==
    process_commit(R(ds, None, "ok"), parcel_ids, errors, c)

\* process() from its call of _process_metrics on
process_record(ds, parcel_ids, errors, c, mres) ==
    process_commit(process_metrics(ds, c, parcel_ids, mres), parcel_ids,
                   errors, c)

\* process() that lets the exception of _run_export propagate
process_exported_raising(e, ingested, export_id, c, mres) ==
    IF e.exc # "ok" THEN R(e.ds, [ids |-> <<>>, errors |-> <<>>], e.exc)
    ELSE process_record(e.ds, Append(ingested, export_id), <<>>, c, mres)

\* process() once _run_export has returned e: its exception is collected
process_exported(e, ingested, export_id, c, mres) ==
    process_record(e.ds, Append(ingested, export_id),
                   IF e.exc # "ok" THEN <<e.exc>> ELSE <<>>, c, mres)

\* process that exports whether or not an export is due
process_export_always(ds, ingested, due, c, t, o, mres) ==
    process_exported(run_export(ds, c, new_parcel_id(t), o), ingested,
                     new_parcel_id(t), c, mres)

\* process() from `if self.is_due()` on
process_export(ds, ingested, due, c, t, o, mres) ==
    IF due
    THEN process_exported(run_export(ds, c, new_parcel_id(t), o), ingested,
                          new_parcel_id(t), c, mres)
    ELSE process_record(ds, ingested, <<>>, c, mres)

\* process() once _run_ingest has returned ing
process_ingested(ing, c, t, o, mres) ==
    IF ing.exc # "ok"
    THEN R(ing.ds, [ids |-> <<>>, errors |-> <<>>], ing.exc)
    ELSE process_export(ing.ds, [k \in 1..Len(ing.ret) |-> ing.ret[k][1]],
                        is_due(ing.ds, c, t, DefaultMarginSeconds),
                        c, t, o, mres)

\* process that ends with the retention cleanup
process_cleaning(ds, c, t, found, o, mres) ==
    [process_ingested(run_ingest(ds, c, t, found), c, t, o, mres)
        EXCEPT !.ds = clean(@, c).ds]

\* process that asks is_due() before it ingests
process_due_first(ds, c, t, found, o, mres) ==
    LET ing == run_ingest(ds, c, t, found)
    IN IF ing.exc # "ok"
       THEN R(ing.ds, [ids |-> <<>>, errors |-> <<>>], ing.exc)
       ELSE process_export(ing.ds, [k \in 1..Len(ing.ret) |-> ing.ret[k][1]],
                           is_due(ds, c, t, DefaultMarginSeconds),
                           c, t, o, mres)

\* DatasetAccessor.process at time t; found, o and mres are what the globs
\* match, what the export command does and what the metric commands print
process(ds, c, t, found, o, mres) ==
    process_ingested(run_ingest(ds, c, t, found), c, t, o, mres)

----------------------------------------------------------------------------
(* The state machine                                                       *)

\* DatasetAccessor.initialize() on an empty directory
EmptyDataset ==
    [data |-> {}, incomplete |-> {}, log |-> {},
     metrics |-> INITIAL_METRICS_CSV, repo |-> NoRepo, inbox |-> {}]

\* No call of the API made yet, or the clock has moved since the last one
Idle == [op |-> "none", pre |-> EmptyDataset, exc |-> "ok"]

Call(op, arg, r) ==
    [op |-> op, arg |-> arg, pre |-> DS, ret |-> r.ret, exc |-> r.exc]

\* Two callers may be at work on the dataset at once
Callers == {"first", "second"}

\* A caller that is in no call
NoCall == [pc |-> "idle", id |-> None, exit |-> 0, oldpath |-> None,
           updates |-> <<>>, read |-> None]

NoCalls == [c \in Callers |-> NoCall]

InitWith(configs) ==
    /\ cfg \in configs
    /\ now = 0
    /\ data = EmptyDataset.data
    /\ incomplete = EmptyDataset.incomplete
    /\ log = EmptyDataset.log
    /\ metrics = EmptyDataset.metrics
    /\ repo = EmptyDataset.repo
    /\ inbox = EmptyDataset.inbox
    /\ last = Idle
    /\ calls = NoCalls

\* Time passes
Tick(maxStep) ==
    /\ \E t \in Times(maxStep) : t > now /\ now' = t
    /\ last' = Idle
    /\ UNCHANGED <<cfg, data, incomplete, log, metrics, repo, inbox, calls>>

\* The parcel ids a caller passes: the id of the current time, as
\* new_parcel_id() gives it, or the id of an earlier time
IdChoices == {new_parcel_id(t) : t \in {u \in Times(MaxStep) : u <= now}}

\* What the configured metric commands can do: print a count, or fail
\* having printed it
MetricResults ==
    [Range(cfg.metrics) -> {MetricOutcome(0, "1"), MetricOutcome(1, "1")}]

\* The margins is_due is called with
Margins == {0, DefaultMarginSeconds}

\* _run_export(parcel_id) with an id of ids
RunExportOf(ids) ==
    \E id \in ids, o \in CmdOutcomes(cfg.cmd) :
        LET r == run_export(DS, cfg, id, o)
        IN /\ SetDS(r.ds)
           /\ last' = Call("run_export", [id |-> id, o |-> o], r)
           /\ UNCHANGED <<cfg, now, calls>>

RunExport == RunExportOf(IdChoices)

PerformExport ==
    \E id \in IdChoices, o \in CmdOutcomes(cfg.cmd), mres \in MetricResults :
        LET r == perform_export(DS, cfg, id, o, mres)
        IN /\ Len(repo.commits) < MaxCommits
           /\ SetDS(r.ds)
           /\ last' = Call("perform_export", [id |-> id, o |-> o], r)
           /\ UNCHANGED <<cfg, now, calls>>

Clean ==
    LET r == clean(DS, cfg)
    IN /\ SetDS(r.ds)
       /\ last' = Call("clean", [keep |-> cfg.keep], r)
       /\ UNCHANGED <<cfg, now, calls>>

IsDue ==
    \E margin \in Margins :
        /\ last' = Call("is_due", [margin |-> margin],
                        [ret |-> is_due(DS, cfg, now, margin), exc |-> "ok"])
        /\ UNCHANGED <<cfg, now, data, incomplete, log, metrics, repo, inbox, calls>>

\* The orders in which glob can list the files of the set S
Orderings(S) ==
    {q \in [1..Cardinality(S) -> S] :
        \A i, j \in 1..Cardinality(S) : q[i] = q[j] => i = j}

\* What the configured globs match: every file of the ingest directory
Found == IF cfg.ingest_paths = <<>> THEN {<<>>} ELSE Orderings(inbox)

Process ==
    \E o \in CmdOutcomes(cfg.cmd), mres \in MetricResults, found \in Found :
        LET r == process(DS, cfg, now, found, o, mres)
        IN /\ Len(repo.commits) < MaxCommits
           /\ SetDS(r.ds)
           /\ last' = Call("process", [o |-> o, found |-> found], r)
           /\ UNCHANGED <<cfg, now, calls>>

\* The rows a caller passes to _update_metrics for the parcel id: the
\* parcel_id and any of the columns success and bugs, in either order
UpdateRows(id) ==
    LET p == <<"parcel_id", id>>
        S == {<<"success", v>> : v \in {"Y", "N"}}
        B == <<"bugs", "1">>
    IN {<<p>>, <<p, B>>, <<p, B, <<"success", "Y">>>>}
          \cup {<<p, a>> : a \in S}

\* The parcel ids of the rows written
UpdateIds == {new_parcel_id(0), new_parcel_id(TimeStep)}

\* The updates mappings: a dict has one row per parcel id, and the later
\* parcel may have been inserted first
Updates ==
    {<<>>} \cup {<<r>> : r \in UNION {UpdateRows(id) : id \in UpdateIds}}
          \cup {<<r2, r1>> : r1 \in UpdateRows(new_parcel_id(0)),
                             r2 \in UpdateRows(new_parcel_id(TimeStep))}

UpdateMetrics ==
    \E u \in Updates :
        LET r == update_metrics(DS, u)
        IN /\ SetDS(r.ds)
           /\ last' = Call("update_metrics", [updates |-> u], r)
           /\ UNCHANGED <<cfg, now, calls>>

\* _collect_metrics(parcel_id) with an id of ids
CollectMetricsOf(ids) ==
    \E id \in ids, mres \in MetricResults :
        /\ last' = Call("collect_metrics", [id |-> id, mres |-> mres],
                        collect_metrics(DS, cfg, id, mres))
        /\ UNCHANGED <<cfg, now, data, incomplete, log, metrics, repo, inbox, calls>>

CollectMetrics == CollectMetricsOf(IdChoices)

\* A file of the ingest directory: name, Path.suffix, st_mtime and size
InboxFile(name, mtime) ==
    [name |-> name, suffix |-> IF name % 2 = 1 THEN ".txt" ELSE ".gz",
     files |-> 1, bytes |-> 3, mtime |-> mtime]

\* Somebody writes a file into the ingest directory
Drop ==
    /\ \E name \in 1..MaxInbox :
           /\ \A f \in inbox : f.name # name
           /\ inbox' = inbox \cup {InboxFile(name, now)}
    /\ last' = Idle
    /\ UNCHANGED <<cfg, now, data, incomplete, log, metrics, repo, calls>>

\* initialize(git=git)
Initialize ==
    \E git \in BOOLEAN :
        LET r == initialize(DS, cfg, git)
        IN /\ Len(repo.commits) < MaxCommits
           /\ SetDS(r.ds)
           /\ cfg' = r.cfg
           /\ last' = Call("initialize", [git |-> git, cfg |-> cfg], r)
           /\ UNCHANGED <<now, calls>>

\* The configurations written into an initialized dataset: an export
\* command that writes one file, or none, with commits switched on only
\* where initialize has made the repository
WrittenConfigs ==
    {[Config(cmd, <<>>, TenMinutes) EXCEPT !.git = g] :
        cmd \in {"", "touch"}, g \in {FALSE, repo.exists}}

\* write_config(cfg)
WriteConfig ==
    /\ cfg.file
    /\ cfg' \in WrittenConfigs \ {cfg}
    /\ last' = Idle
    /\ UNCHANGED <<now, data, incomplete, log, metrics, repo, inbox, calls>>

\* The texts of parcel ids compared: digits of two scripts and two values in
\* each of the four places
IdTexts ==
    [1..4 -> {Digit(script, value) :
                 script \in {"ascii", "arabic-indic"}, value \in {0, 5}}]

\* Two ids are compared as strings, as sorted() and max() do, and parsed;
\* a comparison depends on nothing before it, so one is made from the start
CompareIds ==
    /\ last = Idle
    /\ \E a \in IdTexts, b \in IdTexts :
           last' = [op |-> "compare_ids", arg |-> [a |-> a, b |-> b],
                    pre |-> DS, exc |-> "ok",
                    ret |-> [less |-> StrLess(a, b),
                             a |-> parse_parcel_id_text(a),
                             b |-> parse_parcel_id_text(b)]]
    /\ UNCHANGED <<cfg, now, data, incomplete, log, metrics, repo, inbox, calls>>

\* The duration strings parsed: up to MaxTokens quantities, each with a
\* unit in one of its spellings
DurationStrings ==
    UNION {[1..n -> {0, 1, 3} \X {"w", "weeks", "d", "hr", "min", "s"}] :
              n \in 1..MaxTokens}

\* parse_delta(s); the result depends on nothing but s
ParseDelta ==
    /\ last = Idle
    /\ \E s \in DurationStrings :
           last' = [op |-> "parse_delta", arg |-> [s |-> s], pre |-> DS,
                    exc |-> "ok", ret |-> parse_delta(s)]
    /\ UNCHANGED <<cfg, now, data, incomplete, log, metrics, repo, inbox, calls>>

\* Somebody writes a file into the empty ingest directory
DropOne == inbox = {} /\ Drop

\* ingest_path(path, parcel_id): the caller names a file of the ingest
\* directory and an id, or leaves the id out (new_parcel_id() is used)
IngestPathOf(ids) ==
    \E path \in inbox, id \in ids \cup {None}, mres \in MetricResults :
        LET parcel_id == IF id = None THEN new_parcel_id(now) ELSE id
            r == ingest_path(DS, cfg, path, parcel_id, mres)
        IN /\ SetDS(r.ds)
           /\ last' = Call("ingest_path",
                           [path |-> path, id |-> parcel_id, given |-> id], r)
           /\ UNCHANGED <<cfg, now, calls>>

IngestPath == IngestPathOf(IdChoices)

\* Ids a caller may pass that the pattern does not match: one cut short and
\* one with a file suffix left on it
MalformedIds == {<<0>>, <<0, 0, ".txt">>}

\* One file, always under the same name, arrives when the ingest directory
\* is empty
DropFirst ==
    /\ inbox = {}
    /\ inbox' = {InboxFile(1, now)}
    /\ last' = Idle
    /\ UNCHANGED <<cfg, now, data, incomplete, log, metrics, repo, calls>>

\* _run_ingest(): the globs of ingest.paths are expanded and every match is
\* ingested
RunIngest ==
    \E found \in Found :
        LET r == run_ingest(DS, cfg, now, found)
        IN /\ SetDS(r.ds)
           /\ last' = Call("run_ingest", [found |-> found], r)
           /\ UNCHANGED <<cfg, now, calls>>

\* Somebody writes an entry by hand next to a parcel's complete data, named
\* after the same id, into data/ or into incomplete/ (the tests write into
\* both directories directly to set a dataset up)
Place ==
    /\ \E f \in data, ext \in Exts :
           \/ /\ File(f.id, ext, 1, 0) \notin data
              /\ data' = data \cup {File(f.id, ext, 1, 0)}
              /\ UNCHANGED incomplete
           \/ /\ File(f.id, ext, 1, 0) \notin incomplete
              /\ incomplete' = incomplete \cup {File(f.id, ext, 1, 0)}
              /\ UNCHANGED data
    /\ last' = Idle
    /\ UNCHANGED <<cfg, now, log, metrics, repo, inbox, calls>>

\* ParcelAccessor.find_data() and find_incomplete() called on their own
FindPath ==
    \E id \in IdChoices :
        /\ \/ last' = Call("find_data", [id |-> id],
                           [ret |-> find_data(DS, id).path,
                            exc |-> find_data(DS, id).exc])
           \/ last' = Call("find_incomplete", [id |-> id],
                           [ret |-> find_incomplete(DS, id).path,
                            exc |-> find_incomplete(DS, id).exc])
        /\ UNCHANGED <<cfg, now, data, incomplete, log, metrics, repo, inbox, calls>>

\* ParcelAccessor.is_known() called on its own
IsKnown ==
    \E id \in IdChoices :
        /\ last' = Call("is_known", [id |-> id], is_known(DS, id))
        /\ UNCHANGED <<cfg, now, data, incomplete, log, metrics, repo, inbox, calls>>

\* The lists of parcel ids a caller passes to reprocess_metrics: one id, or
\* the ids of all extant parcels
ReprocessIds == {<<a>> : a \in IdChoices} \cup {find_parcel_ids(DS)}

\* reprocess_metrics(parcel_ids)
ReprocessMetrics ==
    \E ids \in ReprocessIds, mres \in MetricResults :
        LET r == reprocess_metrics(DS, cfg, ids, mres)
        IN /\ SetDS(r.ds)
           /\ last' = Call("reprocess_metrics", [ids |-> ids], r)
           /\ UNCHANGED <<cfg, now, calls>>

\* Somebody moves an entry of incomplete/ into data/ by hand, as
\* test_reprocess_metrics does
Promote ==
    /\ \E f \in incomplete :
           /\ incomplete' = incomplete \ {f}
           /\ data' = data \cup {f}
    /\ last' = Idle
    /\ UNCHANGED <<cfg, now, log, metrics, repo, inbox, calls>>

----------------------------------------------------------------------------
(* perform_export statement by statement                                   *)

\* The export command at work: it writes its entries under $PARCEL_PATH,
\* a prefix inside incomplete/
run_command_into_data(ds, id, o) ==
    [ds EXCEPT !.data = ds.data \cup {File(id, e, 1, 0) : e \in o.exts}]

run_command(ds, id, o) ==
    [ds EXCEPT !.incomplete =
        ds.incomplete \cup {File(id, e, 1, 0) : e \in o.exts}]

\* What a call that has ended leaves in `last`: the caller, the id, the
\* position it had reached, and the outcome
Ended(c, id, ret, exc) ==
    [op |-> "export", arg |-> [caller |-> c, id |-> id, pc |-> calls[c].pc],
     pre |-> DS, ret |-> ret, exc |-> exc]

\* The call of caller c ends here, raising exc
Raise(c, exc) ==
    /\ calls' = [calls EXCEPT ![c] = NoCall]
    /\ last' = Ended(c, calls[c].id, None, exc)

\* The call of caller c goes on at position pc
Goto(c, pc) ==
    /\ calls' = [calls EXCEPT ![c].pc = pc]
    /\ last' = Idle

\* perform_export(parcel_id) up to the guard of _run_export: the id is
\* parsed, is_known() is asked, config.toml is read
BeginExport(c) ==
    /\ calls[c].pc \in {"idle", "done"}
    /\ \E id \in IdChoices :
           LET known == is_known(DS, id)
               exc == IF parcel_accessor(id) # "ok" THEN parcel_accessor(id)
                      ELSE IF known.exc # "ok" THEN known.exc
                      ELSE IF known.ret THEN "ParcelExists"
                      ELSE read_config(cfg)
           IN IF exc # "ok"
              THEN /\ calls' = [calls EXCEPT ![c] = NoCall]
                   /\ last' = Ended(c, id, None, exc)
              ELSE IF cfg.cmd = ""
              THEN /\ calls' = [calls EXCEPT ![c] = NoCall]
                   /\ last' = Ended(c, id, None, "ok")
              ELSE /\ calls' = [calls EXCEPT ![c] =
                                   [NoCall EXCEPT !.pc = "checked", !.id = id]]
                   /\ last' = Idle
    /\ UNCHANGED <<cfg, now, data, incomplete, log, metrics, repo, inbox>>

\* open(outpath, 'w'), open(errpath, 'w')
OpenLogs(c) ==
    /\ calls[c].pc = "checked"
    /\ log' = log \cup {LogFile(calls[c].id, "out"), LogFile(calls[c].id, "err")}
    /\ Goto(c, "running")
    /\ UNCHANGED <<cfg, now, data, incomplete, metrics, repo, inbox>>

\* subprocess.check_call: the command runs and exits
RunCommand(c) ==
    /\ calls[c].pc = "running"
    /\ \E o \in CmdOutcomes(cfg.cmd) :
           /\ SetDS(run_command(DS, calls[c].id, o))
           /\ calls' = [calls EXCEPT ![c].pc = "exited", ![c].exit = o.exit]
    /\ last' = Idle
    /\ UNCHANGED <<cfg, now>>

\* check_call raises on a nonzero status; otherwise the entry the command
\* wrote is looked up in incomplete/
CheckExit(c) ==
    /\ calls[c].pc = "exited"
    /\ LET oldpath == find_parcel_data_path(incomplete, calls[c].id)
       IN IF calls[c].exit # 0 THEN Raise(c, "CalledProcessError")
          ELSE IF oldpath.exc # "ok" THEN Raise(c, oldpath.exc)
          ELSE IF ~oldpath.found THEN Raise(c, "NoData")
          ELSE /\ calls' = [calls EXCEPT ![c].pc = "found",
                                         ![c].oldpath = oldpath.path]
               /\ last' = Idle
    /\ UNCHANGED <<cfg, now, data, incomplete, log, metrics, repo, inbox>>

\* oldpath.rename(newpath): the entry moves from incomplete/ to data/
Rename(c) ==
    /\ calls[c].pc = "found"
    /\ IF calls[c].oldpath \notin incomplete
       THEN /\ Raise(c, "FileNotFound")
            /\ UNCHANGED <<data, incomplete>>
       ELSE /\ incomplete' = incomplete \ {calls[c].oldpath}
            /\ data' = data \cup {calls[c].oldpath}
            /\ Goto(c, "exported")
    /\ UNCHANGED <<cfg, now, log, metrics, repo, inbox>>

\* _process_metrics: _collect_metrics measures the parcel
Collect(c) ==
    /\ calls[c].pc = "exported"
    /\ \E mres \in MetricResults :
           LET m == collect_metrics(DS, cfg, calls[c].id, mres)
           IN IF m.exc # "ok" THEN Raise(c, m.exc)
              ELSE /\ calls' = [calls EXCEPT ![c].pc = "collected",
                                             ![c].updates = <<m.ret>>]
                   /\ last' = Idle
    /\ UNCHANGED <<cfg, now, data, incomplete, log, metrics, repo, inbox>>

\* _update_metrics: read_metrics() reads metrics.csv
ReadMetrics(c) ==
    /\ calls[c].pc = "collected"
    /\ IF read_metrics(DS).exc # "ok" THEN Raise(c, read_metrics(DS).exc)
       ELSE /\ calls' = [calls EXCEPT ![c].pc = "read", ![c].read = metrics]
            /\ last' = Idle
    /\ UNCHANGED <<cfg, now, data, incomplete, log, metrics, repo, inbox>>

\* _update_metrics that reads metrics.csv again at the moment it writes
rewrite_metrics_locked(ds, read, updates) == update_metrics(ds, updates)

\* _update_metrics from `field_order = []` on: the file is opened with 'w'
\* and written from the rows read earlier and the updates, whatever it holds
\* by now
rewrite_metrics(ds, read, updates) ==
    update_metrics_read([ds EXCEPT !.metrics = read],
                        read_metrics([ds EXCEPT !.metrics = read]), updates)

\* _update_metrics: metrics.csv is written anew from the rows that were
\* read and the update; perform_export then commits and returns the id
WriteMetrics(c) ==
    /\ calls[c].pc = "read"
    /\ LET w == rewrite_metrics(DS, calls[c].read, calls[c].updates)
           r == perform_export_record(
                    R([DS EXCEPT !.metrics = w.ds.metrics], None, w.exc),
                    cfg, calls[c].id)
       IN /\ SetDS(r.ds)
          /\ IF r.exc # "ok" THEN Raise(c, r.exc)
             ELSE /\ calls' = [calls EXCEPT ![c].pc = "done"]
                  /\ last' = Ended(c, calls[c].id, r.ret, "ok")
    /\ UNCHANGED <<cfg, now>>

\* The caller is killed in the middle of its call
Interrupt(c) ==
    /\ calls[c].pc \notin {"idle", "done"}
    /\ Raise(c, "Interrupted")
    /\ UNCHANGED <<cfg, now, data, incomplete, log, metrics, repo, inbox>>

----------------------------------------------------------------------------
(* Specifications                                                          *)

Next ==
    \/ Tick(MaxStep)
    \/ RunExport
    \/ PerformExport
    \/ Clean
    \/ IsDue
    \/ Process

\* Export: no command, a command that may fail, a command that may write
\* two entries, and a dataset that also prunes
Init ==
    InitWith({Config("", <<>>, <<>>), Config("flaky", <<>>, <<>>),
              Config("split", <<>>, <<>>), Config("flaky", <<1>>, <<>>)})

Spec == Init /\ [][Next]_vars

\* Retention: every kind of keep value
InitClean ==
    InitWith({Config("flaky", k, <<>>) : k \in {<<>>, <<0>>, <<-1>>, <<1>>, <<2>>}}
             \cup {Config("split", <<1>>, <<>>)})

\* Retention is exercised on what exports leave behind
NextClean ==
    \/ Tick(MaxStep)
    \/ PerformExport
    \/ Clean

SpecClean == InitClean /\ [][NextClean]_vars

\* Scheduling: with and without an interval, with and without a command
InitDue ==
    InitWith({Config("flaky", <<>>, <<>>), Config("flaky", <<>>, TenMinutes),
              Config("flaky", <<1>>, TenMinutes), Config("", <<>>, TenMinutes)})

\* Scheduling is exercised on what exports, process() and clean() leave
NextDue ==
    \/ Tick(MaxStep)
    \/ PerformExport
    \/ Process
    \/ Clean
    \/ IsDue

SpecDue == InitDue /\ [][NextDue]_vars

\* The process() scenario: a command that succeeds, an interval of ten
\* minutes, and nothing but process() calls as time passes
InitProcess ==
    InitWith({Config("touch", k, i) :
                 k \in {<<>>, <<2>>},
                 i \in {TenMinutes, << <<600, "seconds">> >>}})

NextProcess ==
    \/ Tick(MaxProcessStep)
    \/ Process

SpecProcess == InitProcess /\ [][NextProcess]_vars

\* The metrics table: initialize() has written its header, or the file is
\* missing, and the only calls are updates
InitMetrics ==
    /\ InitWith({Config("", <<>>, <<>>)})!1
    /\ now = 0
    /\ data = {} /\ incomplete = {} /\ log = {} /\ inbox = {}
    /\ metrics \in {INITIAL_METRICS_CSV,
                     [INITIAL_METRICS_CSV EXCEPT !.exists = FALSE]}
    /\ repo = NoRepo
    /\ last = Idle
    /\ calls = NoCalls

NextMetrics == UpdateMetrics

SpecMetrics == InitMetrics /\ [][NextMetrics]_vars

\* Collecting metrics on what exports leave behind, with and without
\* configured metrics
InitCollect ==
    InitWith({Config("flaky", <<>>, <<>>), Config("split", <<>>, <<>>),
              [Config("flaky", <<>>, <<>>)
                  EXCEPT !.metrics = <<"lines", "words">>]})

NextCollect ==
    \/ Tick(MaxStep)
    \/ RunExport
    \/ CollectMetrics

SpecCollect == InitCollect /\ [][NextCollect]_vars

\* Orchestration: ingestion, export, metrics and the commit together
OrchConfig(cmd, git, paths, source) ==
    [Config(cmd, <<1>>, TenMinutes) EXCEPT !.git = git, !.ingest_paths = paths,
                                          !.time_source = source]

\* A metrics.csv in which a parcel id appears twice
CorruptMetrics ==
    LET row == [parcel_id |-> new_parcel_id(0), success |-> "Y",
                files |-> "1", bytes |-> "0"]
    IN [exists |-> TRUE, header |-> INITIAL_METRICS_CSV.header,
        rows |-> <<row, row>>]

\* The dataset is initialized; config.toml was written before that or
\* edited after it, or has been removed; metrics.csv may have been damaged
InitOrch ==
    /\ cfg \in {OrchConfig("touch", TRUE, <<"inbox/*">>, "mtime"),
                 OrchConfig("flaky", TRUE, <<>>, "now"),
                 OrchConfig("split", FALSE, <<"inbox/*">>, "now"),
                 [OrchConfig("touch", FALSE, <<>>, "now") EXCEPT !.file = FALSE]}
    /\ now = 0
    /\ data = {} /\ incomplete = {} /\ log = {} /\ inbox = {}
    /\ metrics \in {INITIAL_METRICS_CSV, CorruptMetrics}
    /\ repo \in IF cfg.git
                THEN {initialize_git(EmptyDataset, cfg).repo,
                      initialize_git(EmptyDataset, DefaultGitConfig).repo}
                ELSE {NoRepo}
    /\ last = Idle
    /\ calls = NoCalls

NextOrch ==
    \/ Tick(MaxStep)
    \/ Drop
    \/ Process

SpecOrch == InitOrch /\ [][NextOrch]_vars

\* Operations called with ids the pattern matches and with ids it does not
InitFormat == InitWith({OrchConfig("touch", FALSE, <<>>, "now")})

NextFormat ==
    \/ Tick(MaxStep)
    \/ DropOne
    \/ RunExportOf(IdChoices \cup MalformedIds)
    \/ IngestPathOf(IdChoices \cup MalformedIds)
    \/ CollectMetricsOf(IdChoices \cup MalformedIds)

SpecFormat == InitFormat /\ [][NextFormat]_vars

\* Lookups: a command that may write two entries, entries written by hand,
\* and every operation that looks a parcel's data up
InitLookup ==
    InitWith({Config("split", <<>>, <<>>), Config("split", <<1>>, <<>>)})

NextLookup ==
    \/ Tick(MaxLookupStep)
    \/ Place
    \/ RunExport
    \/ FindPath
    \/ IsKnown
    \/ CollectMetrics
    \/ Clean

SpecLookup == InitLookup /\ [][NextLookup]_vars

\* One caller going through perform_export statement by statement, with a
\* command that may fail and one that may write two entries
Solo == {"first"}

InitSteps ==
    InitWith({Config("flaky", <<>>, <<>>), Config("split", <<>>, <<>>)})

NextSteps ==
    \/ Tick(MaxLookupStep)
    \/ \E c \in Solo : BeginExport(c)
    \/ \E c \in Solo : OpenLogs(c)
    \/ \E c \in Solo : RunCommand(c)
    \/ \E c \in Solo : CheckExit(c)
    \/ \E c \in Solo : Rename(c)
    \/ \E c \in Solo : Collect(c)
    \/ \E c \in Solo : ReadMetrics(c)
    \/ \E c \in Solo : WriteMetrics(c)
    \/ \E c \in Solo : Interrupt(c)

SpecSteps == InitSteps /\ [][NextSteps]_vars

\* Ingestion and scheduling together: files arrive one by one, take the id
\* of their mtime or of the current time, and exports are also run by hand
InitIngestDue ==
    InitWith({OrchConfig("touch", FALSE, <<"inbox/*">>, "mtime"),
              OrchConfig("touch", FALSE, <<"inbox/*">>, "now")})

NextIngestDue ==
    \/ Tick(MaxStep)
    \/ DropOne
    \/ PerformExport
    \/ Process

SpecIngestDue == InitIngestDue /\ [][NextIngestDue]_vars

\* Recomputing metrics on what exports leave behind, complete or not
InitReprocess == InitWith({Config("flaky", <<>>, <<>>)})

NextReprocess ==
    \/ Tick(MaxLookupStep)
    \/ RunExport
    \/ Promote
    \/ ReprocessMetrics

SpecReprocess == InitReprocess /\ [][NextReprocess]_vars

\* Every operation of a single caller on a freshly initialized dataset:
\* a command that may fail having written an entry, or write two entries,
\* ingestion under the id of the mtime, retention of one parcel
InitAll ==
    InitWith({OrchConfig("partial", FALSE, <<"inbox/*">>, "mtime")})

NextAll ==
    \/ Tick(MaxLookupStep)
    \/ DropFirst
    \/ RunExport
    \/ IngestPath
    \/ RunIngest
    \/ ReprocessMetrics
    \/ Process
    \/ Clean

SpecAll == InitAll /\ [][NextAll]_vars

\* Reuse of ids: the public export and ingest operations record parcels,
\* clean() removes them, and exports and ingestions are tried under ids of
\* the past
InitReuse == InitWith({OrchConfig("partial", FALSE, <<>>, "now")})

NextReuse ==
    \/ Tick(MaxLookupStep)
    \/ DropFirst
    \/ PerformExport
    \/ IngestPath
    \/ RunExport
    \/ Clean

SpecReuse == InitReuse /\ [][NextReuse]_vars

\* Two callers going through perform_export at once, with a command that
\* succeeds
InitRace == InitWith({Config("touch", <<>>, <<>>)})

NextRace ==
    \/ Tick(MaxStep)
    \/ \E c \in Callers : BeginExport(c)
    \/ \E c \in Callers : OpenLogs(c)
    \/ \E c \in Callers : RunCommand(c)
    \/ \E c \in Callers : CheckExit(c)
    \/ \E c \in Callers : Rename(c)
    \/ \E c \in Callers : Collect(c)
    \/ \E c \in Callers : ReadMetrics(c)
    \/ \E c \in Callers : WriteMetrics(c)

SpecRace == InitRace /\ [][NextRace]_vars

\* Durations parsed
InitDelta == InitWith({DefaultConfig})

NextDelta == ParseDelta

SpecDelta == InitDelta /\ [][NextDelta]_vars

\* Parcel ids as texts, compared and parsed
InitIds == InitWith({DefaultConfig})

NextIds == CompareIds

SpecIds == InitIds /\ [][NextIds]_vars

\* From a directory that holds nothing: initialization, with and without
\* git, the configuration edited afterwards, and exports
Uninitialized ==
    [EmptyDataset EXCEPT !.metrics =
        [INITIAL_METRICS_CSV EXCEPT !.exists = FALSE]]

InitSetup ==
    /\ cfg = [DefaultConfig EXCEPT !.file = FALSE]
    /\ now = 0
    /\ data = {} /\ incomplete = {} /\ log = {} /\ inbox = {}
    /\ metrics = Uninitialized.metrics
    /\ repo = NoRepo
    /\ last = Idle
    /\ calls = NoCalls

NextSetup ==
    \/ Tick(MaxStep)
    \/ Initialize
    \/ WriteConfig
    \/ PerformExport

SpecSetup == InitSetup /\ [][NextSetup]_vars

\* Ingestion by hand, next to exports that fail or write two files
InitIngest ==
    InitWith({OrchConfig("split", FALSE, <<>>, "now"),
              OrchConfig("false", FALSE, <<>>, "now")})

NextIngest ==
    \/ Tick(MaxStep)
    \/ DropOne
    \/ RunExport
    \/ IngestPath

SpecIngest == InitIngest /\ [][NextIngest]_vars

\* Ingestion by the configured globs, with ids from the clock or from the
\* files' modification times, and without ingest.paths
InitAuto ==
    InitWith({OrchConfig("", FALSE, <<"inbox/*">>, "mtime"),
              OrchConfig("", FALSE, <<"inbox/*">>, "now"),
              OrchConfig("", FALSE, <<>>, "now")})

NextAuto ==
    \/ Tick(MaxStep)
    \/ Drop
    \/ RunIngest

SpecAuto == InitAuto /\ [][NextAuto]_vars

----------------------------------------------------------------------------
(* Vocabulary of the properties                                            *)

\* The ids that name an entry of data/, incomplete/ or log/
ArtifactIds(ds) ==
    {f.id : f \in ds.data} \cup {f.id : f \in ds.incomplete}
        \cup {l.id : l \in ds.log}

\* The ids a row of metrics.csv references
RowIds(ds) == {ds.metrics.rows[i]["parcel_id"] : i \in 1..Len(ds.metrics.rows)}

\* "known": any of the four artifacts exists, or a metrics row references it
KnownIds(ds) == ArtifactIds(ds) \cup RowIds(ds)

\* The extant parcels: the ids find_parcel_ids lists
ExtantIds(ds) == Range(find_parcel_ids(ds))

PositiveKeep == cfg.keep # <<>> /\ cfg.keep[1] > 0

Files(ds) == [data |-> ds.data, incomplete |-> ds.incomplete, log |-> ds.log]

----------------------------------------------------------------------------
(* Properties of clean()                                                   *)

\* C1 as stated: after clean() with keep = N > 0 at most N known parcels
\* remain, and every removed id is smaller than every retained id.
C1_AtMostKeepKnown ==
    (last.op = "clean" /\ PositiveKeep /\ last.exc = "ok") =>
        /\ Cardinality(KnownIds(DS)) <= cfg.keep[1]
        /\ \A r \in KnownIds(last.pre) \ KnownIds(DS), k \in KnownIds(DS) :
               LexLess(r, k)

\* C1, amended: after clean() has returned with keep = N > 0, at most N
\* extant parcels (the ids find_parcel_ids lists: those naming an entry of
\* data/, incomplete/ or log/) remain, none was added, and every parcel no
\* longer listed has an id smaller than the id of every parcel still listed.
C1_AtMostKeepExtant ==
    (last.op = "clean" /\ PositiveKeep /\ last.exc = "ok") =>
        /\ Cardinality(ExtantIds(DS)) <= cfg.keep[1]
        /\ ExtantIds(DS) \subseteq ExtantIds(last.pre)
        /\ \A r \in ExtantIds(last.pre) \ ExtantIds(DS),
              k \in ExtantIds(DS) : LexLess(r, k)

\* clean() with keep = 1 has removed two parcels and kept the newest
C1_Witness ==
    /\ last.op = "clean" /\ PositiveKeep /\ last.exc = "ok"
    /\ Cardinality(ExtantIds(last.pre)) = 3
    /\ Cardinality(ExtantIds(DS)) = 1
    /\ RowIds(DS) # {}

\* C2 as stated: with keep absent, 0 or negative, clean() returns normally
\* and removes no entry of data/, incomplete/ or log/.
C2_NoOpWithoutPositiveKeep ==
    (last.op = "clean" /\ ~PositiveKeep) =>
        last.exc = "ok" /\ Files(DS) = Files(last.pre)

\* C3: clean() leaves metrics.csv as it was, whatever keep is and whether or
\* not it removed parcels that have a row.
C3_CleanKeepsMetrics ==
    last.op = "clean" => metrics = last.pre.metrics

\* clean() has removed the entries of a parcel that has a metrics row
C3_Witness ==
    /\ last.op = "clean"
    /\ \E id \in RowIds(last.pre) :
           id \in ArtifactIds(last.pre) /\ id \notin ArtifactIds(DS)

----------------------------------------------------------------------------
(* Properties of _run_export                                               *)

RunExportCalled == last.op = "run_export"

PreEntries(parent, id) == {f \in parent : f.id = id}

\* The lookup of the parcel's data raises the ambiguity error: more than one
\* entry of data/ matches the id, or none does and more than one entry of
\* incomplete/ matches it.
AmbiguousBefore(id) ==
    \/ Cardinality(PreEntries(last.pre.data, id)) > 1
    \/ /\ PreEntries(last.pre.data, id) = {}
       /\ Cardinality(PreEntries(last.pre.incomplete, id)) > 1

\* C4 as stated: _run_export with a known id raises ParcelExists and leaves
\* every artifact and the metrics table as they were.
C4_KnownIdRaisesParcelExists ==
    (RunExportCalled /\ last.arg.id \in KnownIds(last.pre)) =>
        last.exc = "ParcelExists" /\ DS = last.pre

\* C4, amended: _run_export with a known id fails before it runs the
\* command and leaves every artifact and the metrics table as they were; the
\* error is ParcelExists, except that it is the ambiguity error when the
\* lookup of the parcel's data finds more than one match.
C4_KnownIdFailsUnchanged ==
    (RunExportCalled /\ last.arg.id \in KnownIds(last.pre)) =>
        /\ DS = last.pre
        /\ last.ret = None
        /\ last.exc = IF AmbiguousBefore(last.arg.id) THEN "Ambiguous"
                      ELSE "ParcelExists"

\* A second _run_export with the id of a complete parcel has failed
C4_Witness ==
    /\ RunExportCalled
    /\ last.exc = "ParcelExists"
    /\ PreEntries(last.pre.data, last.arg.id) # {}
    /\ last.arg.o.exts # {}

\* _run_export ran the configured command for an id that was unknown
RanCommand ==
    RunExportCalled /\ last.arg.id \notin KnownIds(last.pre) /\ cfg.cmd # ""

ExactlyOneProduced == last.arg.o.exit = 0 /\ Cardinality(last.arg.o.exts) = 1

\* C5: when the command exits zero having produced exactly one entry under
\* the destination prefix, that entry is in data/ under the same name,
\* incomplete/ holds nothing for the id, both log files exist and the id is
\* returned.
C5_SuccessPromotes ==
    (RanCommand /\ ExactlyOneProduced) =>
        /\ last.exc = "ok" /\ last.ret = last.arg.id
        /\ {f.ext : f \in PreEntries(data, last.arg.id)} = last.arg.o.exts
        /\ PreEntries(incomplete, last.arg.id) = {}
        /\ {LogFile(last.arg.id, "out"), LogFile(last.arg.id, "err")}
               \subseteq log

C5_Witness ==
    /\ RanCommand /\ ExactlyOneProduced
    /\ PreEntries(data, last.arg.id) # {}
    /\ ArtifactIds(last.pre) # {}

\* C6: when the command exits nonzero, or exits zero without having produced
\* exactly one entry, _run_export raises, data/ holds nothing for the id,
\* both log files remain and what the command wrote stays in incomplete/.
C6_FailureKeepsIncomplete ==
    (RanCommand /\ ~ExactlyOneProduced) =>
        /\ last.exc # "ok"
        /\ PreEntries(data, last.arg.id) = {}
        /\ data = last.pre.data
        /\ {f.ext : f \in PreEntries(incomplete, last.arg.id)}
               = last.arg.o.exts
        /\ {LogFile(last.arg.id, "out"), LogFile(last.arg.id, "err")}
               \subseteq log

\* The command exited zero but wrote two entries: both stay in incomplete/
C6_Witness ==
    /\ RanCommand /\ last.arg.o.exit = 0
    /\ Cardinality(PreEntries(incomplete, last.arg.id)) = 2
    /\ last.exc = "Ambiguous"

\* C7: _run_export with an unknown id and no cmd configured returns None and
\* creates nothing, so the id is still unknown.
C7_NoCmdNoOp ==
    (RunExportCalled /\ last.arg.id \notin KnownIds(last.pre) /\ cfg.cmd = "")
        => /\ last.exc = "ok" /\ last.ret = None
           /\ DS = last.pre
           /\ last.arg.id \notin KnownIds(DS)

C7_Witness ==
    /\ RunExportCalled /\ cfg.cmd = ""
    /\ last.arg.id \notin KnownIds(last.pre)
    /\ last.exc = "ok"

----------------------------------------------------------------------------
(* Properties of is_due                                                    *)

IsDueCalled == last.op = "is_due"

\* The greatest of a set of ids in string order
Newest(S) == CHOOSE x \in S : \A y \in S \ {x} : LexLess(y, x)

\* The time an id names: the time new_parcel_id formats as that id
TimestampOf(id) ==
    CHOOSE t \in 0..(MaxProcessStep * TimeStep) : new_parcel_id(t) = id

\* C8: without a configured interval is_due returns false, whatever parcels
\* exist and whatever the margin is.
C8_NoIntervalNeverDue ==
    (IsDueCalled /\ cfg.interval = <<>>) => last.ret = FALSE

\* is_due was asked, without an interval, about a dataset whose only parcel
\* is incomplete and old
C8_Witness ==
    /\ IsDueCalled /\ cfg.interval = <<>> /\ last.arg.margin = 0
    /\ data = {} /\ incomplete # {} /\ now > 0
    /\ \A id \in ArtifactIds(DS) : TimestampOf(id) = 0

\* The answer C9 gives for the set S of parcel ids, with an interval of ten
\* minutes
DueBy(S) ==
    \/ S = {}
    \/ now - TimestampOf(Newest(S)) >= 10 * 60 - last.arg.margin

----------------------------------------------------------------------------
(* Properties of process()                                                 *)

ProcessCalled == last.op = "process"

\* C10: with a succeeding command and an interval of ten minutes, a
\* process() call made on an empty dataset or exactly one interval after the
\* newest parcel produces exactly one new parcel, named by the current time
\* and complete; every parcel has exactly one metrics row; and a process()
\* call made less than interval - margin after the newest parcel produces no
\* parcel and changes nothing.
C10_OneParcelPerInterval ==
    /\ RowIds(DS) = ExtantIds(DS)
    /\ Len(metrics.rows) = Cardinality(ExtantIds(DS))
    /\ ProcessCalled =>
        LET before == ExtantIds(last.pre)
            id == new_parcel_id(now)
        IN /\ (before = {} \/ now - TimestampOf(Newest(before)) = 10 * 60) =>
                  /\ last.ret = [ids |-> <<id>>, errors |-> <<>>]
                  /\ id \notin KnownIds(last.pre)
                  /\ ExtantIds(DS) = before \cup {id}
                  /\ Cardinality(PreEntries(data, id)) = 1
                  /\ PreEntries(incomplete, id) = {}
           /\ (before # {} /\ now - TimestampOf(Newest(before))
                                  < 10 * 60 - DefaultMarginSeconds) =>
                  /\ last.ret = [ids |-> <<>>, errors |-> <<>>]
                  /\ DS = last.pre

\* Two parcels were produced one interval apart, and the process() call made
\* less than interval - margin after the second has produced none
C10_Witness ==
    /\ ProcessCalled /\ last.exc = "ok" /\ last.ret.ids = <<>>
    /\ Cardinality(ExtantIds(DS)) = 2
    /\ \E a, b \in ExtantIds(DS) : TimestampOf(b) - TimestampOf(a) = 10 * 60
    /\ now - TimestampOf(Newest(ExtantIds(DS))) = TimeStep
    /\ Len(metrics.rows) = 2

Corrupted(m) ==
    \E i, j \in 1..Len(m.rows) :
        i < j /\ m.rows[i]["parcel_id"] = m.rows[j]["parcel_id"]

\* process() was called with config.toml in place and no path to ingest, at
\* a time when an export was due: it has called _run_export
ExportAttempted ==
    /\ ProcessCalled /\ cfg.file /\ last.arg.found = <<>>
    /\ cfg.interval = TenMinutes
    /\ \/ ExtantIds(last.pre) = {}
       \/ now - TimestampOf(Newest(ExtantIds(last.pre)))
              >= 10 * 60 - DefaultMarginSeconds

\* That _run_export cannot succeed: the id is taken, the table cannot be
\* read, or the command fails or does not write exactly one entry
ExportFails ==
    \/ new_parcel_id(now) \in KnownIds(last.pre)
    \/ Corrupted(last.pre.metrics)
    \/ cfg.cmd = ""
    \/ ~ExactlyOneProduced

\* C12: a failed export or a failed metrics recomputation never makes
\* process() raise: process() returns the id and the error in its lists, and
\* after a failed export it has still processed the metrics of the id (the
\* id has its row, or the failure of the metrics is the second error).
C12_FailuresAreCollected ==
    /\ (ProcessCalled /\ cfg.file /\ last.arg.found = <<>>) => last.exc = "ok"
    /\ (ExportAttempted /\ ExportFails /\ cfg.cmd # "") =>
           /\ last.exc = "ok"
           /\ last.ret.ids = <<new_parcel_id(now)>>
           /\ Len(last.ret.errors) \in {1, 2}
           /\ \A k \in 1..Len(last.ret.errors) : last.ret.errors[k] # "ok"
           /\ PreEntries(data, new_parcel_id(now))
                  = PreEntries(last.pre.data, new_parcel_id(now))
           /\ \/ Len(last.ret.errors) = 2
              \/ new_parcel_id(now) \in RowIds(DS)

\* The command exited with status 1: process() has returned that error and
\* the row of the failed parcel is written
C12_Witness ==
    /\ ExportAttempted /\ last.arg.o.exit = 1
    /\ last.ret.errors = <<"CalledProcessError">>
    /\ \E k \in 1..Len(metrics.rows) :
           /\ metrics.rows[k]["parcel_id"] = new_parcel_id(now)
           /\ metrics.rows[k]["success"] = "N"

\* The parcel id _run_ingest gives to the file f
IngestId(f) ==
    IF cfg.time_source = "mtime" THEN new_parcel_id(f.mtime)
    ELSE new_parcel_id(now)

\* C13 as stated: a configuration-read error and a corruption error of the
\* metrics table propagate from process(); neither is captured in the
\* returned error list.
C13_CorruptionPropagates ==
    ProcessCalled =>
        /\ ~cfg.file => last.exc = "NotAFile"
        /\ "Corrupt" \notin Range(last.ret.errors)

\* C13, amended: a configuration-read error propagates from process().  A
\* corruption error of the metrics table propagates only when it is raised
\* while a matched path is ingested; raised by the export step or by the
\* metrics recomputation it is captured in the returned error list, and a
\* call that touches no id does not read the table and reports nothing.
C13_CorruptionMostlyCollected ==
    ProcessCalled =>
        /\ ~cfg.file => (last.exc = "NotAFile" /\ DS = last.pre)
        /\ (cfg.file /\ Corrupted(last.pre.metrics)) =>
               /\ last.arg.found = <<>> =>
                      /\ last.exc = "ok"
                      /\ last.ret.ids = <<>> => last.ret.errors = <<>>
                      /\ last.ret.ids # <<>> =>
                             "Corrupt" \in Range(last.ret.errors)
               /\ (/\ last.arg.found # <<>>
                   /\ IngestId(last.arg.found[1]) \notin ArtifactIds(last.pre))
                      => (last.exc = "Corrupt" /\ DS = last.pre)
               /\ last.exc # "ok" => last.arg.found # <<>>

\* With a damaged table an export was due: process() has returned the
\* corruption error in its list
C13_Witness ==
    /\ ExportAttempted /\ Corrupted(last.pre.metrics)
    /\ last.exc = "ok"
    /\ "Corrupt" \in Range(last.ret.errors)

\* C14 as stated: on a dataset with git = true, a process() call that adds
\* data makes exactly one commit, which holds metrics.csv and every added
\* entry of data/; a process() call that changes nothing makes no commit.
C14_OneCommitOrNone ==
    (ProcessCalled /\ cfg.git /\ last.exc = "ok") =>
        /\ data # last.pre.data =>
               /\ repo.commits = Append(last.pre.repo.commits,
                                        repo.commits[Len(repo.commits)])
               /\ repo.head.metrics = <<metrics>>
               /\ (data \ last.pre.data) \subseteq repo.head.data
        /\ (/\ data = last.pre.data /\ metrics = last.pre.metrics
            /\ incomplete = last.pre.incomplete /\ log = last.pre.log)
               => repo.commits = last.pre.repo.commits

\* C15: after process() has returned with an empty error list, metrics.csv
\* has exactly one row for every id of the returned id list.
C15_ReturnedIdsHaveRows ==
    (ProcessCalled /\ last.exc = "ok" /\ last.ret.errors = <<>>) =>
        \A k \in 1..Len(last.ret.ids) :
            Cardinality({i \in 1..Len(metrics.rows) :
                metrics.rows[i]["parcel_id"] = last.ret.ids[k]}) = 1

\* One call has ingested a file and run an export: both ids have their row
C15_Witness ==
    /\ ProcessCalled /\ last.exc = "ok" /\ last.ret.errors = <<>>
    /\ Len(last.ret.ids) = 2
    /\ last.arg.found # <<>>
    /\ last.ret.ids[2] = new_parcel_id(now)
    /\ RowIds(last.pre) = {}

\* The metrics table under updates
UpdateCalled == last.op = "update_metrics"

\* The rows read_metrics returns from a table
StoredRows(m) == Range(m.rows)

\* The supplied row as it reads back under the stored columns
ReadBack(u, header) == [c \in Range(header) |-> Get(u, c, "")]

\* The columns a table that holds rows contributes to the next write
KeptColumns(m) == IF m.exists /\ m.rows # <<>> THEN Range(m.header) ELSE {}

\* The fields of the rows written
WrittenFields(updates) ==
    UNION {Range(Keys(updates[i])) : i \in 1..Len(updates)}

\* C16: an update replaces whole rows: a stored row whose parcel id is not in
\* the updates keeps every field value it had, and the row of a parcel id in
\* the updates is exactly the supplied row, each column it omits reading back
\* as the empty string; no field of the replaced row survives
C16_ReplaceSemantics ==
    (UpdateCalled /\ last.exc = "ok" /\ last.arg.updates # <<>>) =>
        LET u == last.arg.updates
            ids == {Get(u[i], "parcel_id", None) : i \in 1..Len(u)}
        IN /\ \A p \in StoredRows(last.pre.metrics) :
                  p["parcel_id"] \notin ids =>
                      \E q \in StoredRows(metrics) :
                          /\ q["parcel_id"] = p["parcel_id"]
                          /\ \A c \in DOMAIN p : q[c] = p[c]
           /\ \A i \in 1..Len(u) :
                  /\ Range(Keys(u[i])) \subseteq Range(metrics.header)
                  /\ \E q \in StoredRows(metrics) :
                         q = ReadBack(u[i], metrics.header)

\* A stored row with a success value is replaced by a row without one, next
\* to a stored row the update does not name
C16_Witness ==
    /\ UpdateCalled /\ last.exc = "ok"
    /\ Len(last.arg.updates) = 1
    /\ ~HasKey(last.arg.updates[1], "success")
    /\ \E p \in StoredRows(last.pre.metrics) :
           /\ p["parcel_id"] = Get(last.arg.updates[1], "parcel_id", None)
           /\ "success" \in DOMAIN p /\ p["success"] = "Y"
    /\ \E p \in StoredRows(last.pre.metrics) :
           p["parcel_id"] # Get(last.arg.updates[1], "parcel_id", None)
    /\ \E q \in StoredRows(metrics) :
           /\ q["parcel_id"] = Get(last.arg.updates[1], "parcel_id", None)
           /\ q["success"] = ""

\* C17: applying the same updates a second time succeeds and leaves the
\* table, rows and columns, as the first application left it
C17_UpdateIdempotent ==
    (UpdateCalled /\ last.exc = "ok") =>
        /\ update_metrics(DS, last.arg.updates).exc = "ok"
        /\ update_metrics(DS, last.arg.updates).ds.metrics = metrics

\* The first application changed rows and columns of a table that held rows
C17_Witness ==
    /\ UpdateCalled /\ last.exc = "ok"
    /\ Len(last.arg.updates) = 2
    /\ last.pre.metrics.rows # <<>>
    /\ metrics.rows # last.pre.metrics.rows
    /\ metrics.header # last.pre.metrics.header

\* C18 as stated: from any stored table, the header-only one included, the
\* columns after an update are the columns stored before and the fields written
C18_ColumnsOnlyGrow ==
    (UpdateCalled /\ last.exc = "ok" /\ last.arg.updates # <<>>) =>
        Range(metrics.header) =
            Range(last.pre.metrics.header)
                \cup WrittenFields(last.arg.updates)

\* C18: the columns after an update that writes rows are the columns of the
\* stored table, if it held a row, and the fields of the rows written; the
\* header of a table without rows is not kept
C18_ColumnsGrowOnceRowsExist ==
    (UpdateCalled /\ last.exc = "ok" /\ last.arg.updates # <<>>) =>
        Range(metrics.header) =
            KeptColumns(last.pre.metrics)
                \cup WrittenFields(last.arg.updates)

\* A table with rows gained a column, and the rows written lack a stored one
C18_Witness ==
    /\ UpdateCalled /\ last.exc = "ok" /\ last.arg.updates # <<>>
    /\ last.pre.metrics.rows # <<>>
    /\ "success" \in Range(last.pre.metrics.header)
    /\ "success" \notin WrittenFields(last.arg.updates)
    /\ "bugs" \notin Range(last.pre.metrics.header)
    /\ "bugs" \in Range(metrics.header)
    /\ "success" \in Range(metrics.header)

\* C19: the stored rows are in ascending parcel id order and no parcel id
\* has two rows, after every update
C19_SortedUniqueRows ==
    \A i, j \in 1..Len(metrics.rows) :
        i < j => LexLess(metrics.rows[i]["parcel_id"],
                         metrics.rows[j]["parcel_id"])

\* The later parcel was stored alone and the update supplies the earlier one
\* after a new row for the later one
C19_Witness ==
    /\ UpdateCalled /\ last.exc = "ok"
    /\ RowIds(last.pre) = {new_parcel_id(TimeStep)}
    /\ Len(last.arg.updates) = 2
    /\ Len(metrics.rows) = 2
    /\ metrics.rows[1]["parcel_id"] = new_parcel_id(0)

\* Collecting a parcel's metrics
CollectCalled == last.op = "collect_metrics"

\* The entries of data/ and of incomplete/ for the id collected
CompleteEntries == PreEntries(last.pre.data, last.arg.id)
IncompleteEntries == PreEntries(last.pre.incomplete, last.arg.id)

\* The entry the sizes are measured on: the complete one if there is one
Measured ==
    IF CompleteEntries # {} THEN CHOOSE f \in CompleteEntries : TRUE
    ELSE CHOOSE f \in IncompleteEntries : TRUE

\* What the claim says of the dict returned
CollectedAsDocumented ==
    /\ last.exc = "ok"
    /\ Get(last.ret, "parcel_id", None) = last.arg.id
    /\ Get(last.ret, "success", None) =
           (IF CompleteEntries # {} THEN "Y" ELSE "N")
    /\ IF CompleteEntries # {} \/ IncompleteEntries # {}
       THEN /\ Get(last.ret, "files", None) = ToString(Measured.files)
            /\ Get(last.ret, "bytes", None) = ToString(Measured.bytes)
       ELSE last.ret = << <<"parcel_id", last.arg.id>>, <<"success", "N">> >>

\* C20 as stated: collecting always returns parcel_id and success, with files
\* and bytes exactly when there is data
C20_AlwaysReturns == CollectCalled => CollectedAsDocumented

\* C20: collecting returns parcel_id and success, with files and bytes exactly
\* when there is data and nothing else when there is none, unless more than
\* one entry matches the id where it looks: then it raises the ambiguity error
C20_ReturnsUnlessAmbiguous ==
    CollectCalled =>
        IF AmbiguousBefore(last.arg.id) THEN last.exc = "Ambiguous"
        ELSE CollectedAsDocumented

\* A failed export left incomplete data, and it is what was measured
C20_Witness ==
    /\ CollectCalled /\ last.exc = "ok"
    /\ CompleteEntries = {}
    /\ Cardinality(IncompleteEntries) = 1
    /\ HasKey(last.ret, "files") /\ HasKey(last.ret, "bytes")
    /\ Get(last.ret, "success", None) = "N"

\* The configured metrics whose command failed in the call
FailedMetrics == {n \in Range(cfg.metrics) : last.arg.mres[n].exit # 0}

\* C21: a metric whose command fails is recorded as ERROR and nothing else is
\* lost: the call returns, with parcel_id, success, files and bytes, and
\* with the output of every metric whose command succeeded
C21_FailingMetricContained ==
    (CollectCalled /\ FailedMetrics # {}
        /\ ~AmbiguousBefore(last.arg.id)
        /\ (CompleteEntries # {} \/ IncompleteEntries # {})) =>
        /\ CollectedAsDocumented
        /\ \A n \in Range(cfg.metrics) :
               Get(last.ret, n, None) =
                   (IF n \in FailedMetrics THEN "ERROR"
                    ELSE last.arg.mres[n].out)

\* One metric failed and the other did not, on a complete parcel
C21_Witness ==
    /\ CollectCalled /\ last.exc = "ok"
    /\ CompleteEntries # {}
    /\ FailedMetrics = {"lines"}
    /\ Get(last.ret, "lines", None) = "ERROR"
    /\ Get(last.ret, "words", None) = "1"
    /\ HasKey(last.ret, "bytes")

\* Ingesting a path by hand
IngestPathCalled == last.op = "ingest_path"

\* The dataset, the ingest directory included, is as it was before the call
NothingChanged == DS = last.pre

\* C22 as stated: ingest_path with a known id raises ParcelExists and moves,
\* creates and records nothing
C22_KnownIdRaisesParcelExists ==
    (IngestPathCalled /\ last.arg.id \in KnownIds(last.pre)) =>
        /\ last.exc = "ParcelExists"
        /\ NothingChanged

\* C22: ingest_path with a known id fails and moves, creates and records
\* nothing; the error is ParcelExists unless the lookup of the parcel's data
\* finds more than one entry, and then it is the ambiguity error
C22_KnownIdFailsUnchanged ==
    (IngestPathCalled /\ last.arg.id \in KnownIds(last.pre)) =>
        /\ last.exc = (IF AmbiguousBefore(last.arg.id) THEN "Ambiguous"
                       ELSE "ParcelExists")
        /\ NothingChanged

\* The id has complete data from an earlier ingest; the source stays put
C22_Witness ==
    /\ IngestPathCalled /\ last.exc = "ParcelExists"
    /\ \E f \in last.pre.data : f.id = last.arg.id /\ f.bytes = 3
    /\ last.arg.path \in inbox

\* C23: ingesting a file under an unknown id moves it to data/<id><suffix>,
\* puts nothing into incomplete/, and records a metrics row for the id with
\* success Y and the files and bytes of the ingested data
C23_IngestMovesAndRecords ==
    (IngestPathCalled /\ last.arg.id \notin KnownIds(last.pre)) =>
        /\ last.exc = "ok"
        /\ last.arg.path \notin inbox
        /\ data = last.pre.data \cup
               {File(last.arg.id, last.arg.path.suffix,
                     last.arg.path.files, last.arg.path.bytes)}
        /\ incomplete = last.pre.incomplete
        /\ \E q \in StoredRows(metrics) :
               /\ q["parcel_id"] = last.arg.id
               /\ q["success"] = "Y"
               /\ q["files"] = ToString(last.arg.path.files)
               /\ q["bytes"] = ToString(last.arg.path.bytes)

\* A file is ingested under the id of an earlier time, next to a parcel
\* that is already there
C23_Witness ==
    /\ IngestPathCalled /\ last.exc = "ok"
    /\ last.arg.given # None /\ last.arg.id # new_parcel_id(now)
    /\ last.pre.data # {}
    /\ last.arg.path.suffix = ".gz"
    /\ File(last.arg.id, ".gz", 1, 3) \in data

\* Ingesting what the configured globs match
RunIngestCalled == last.op = "run_ingest"

\* C24: _run_ingest moves every matched path into data/ as a complete parcel
\* and returns one entry per matched path, from the id made of the current
\* time or of the file's modification time to the path; without
\* ingest.paths it does nothing and returns the empty mapping
C24_EveryMatchIngested ==
    RunIngestCalled =>
        /\ last.exc = "ok"
        /\ IF cfg.ingest_paths = <<>>
           THEN last.ret = <<>> /\ NothingChanged
           ELSE /\ Len(last.ret) = Len(last.arg.found)
                /\ \A k \in 1..Len(last.arg.found) :
                       LET f == last.arg.found[k]
                       IN /\ f \notin inbox
                          /\ File(IngestId(f), f.suffix, f.files, f.bytes)
                                 \in data
                          /\ <<IngestId(f), f>> \in Range(last.ret)

\* Initializing the dataset
InitializeCalled == last.op = "initialize"

\* C25: initialize creates config.toml and metrics.csv when they are
\* missing, leaves an existing config.toml, an existing metrics.csv and
\* every parcel artifact as they are, and a further call, with or without
\* git, changes none of them again
C25_InitializeNonDestructive ==
    InitializeCalled =>
        /\ last.exc = "ok"
        /\ cfg.file /\ metrics.exists
        /\ last.arg.cfg.file => cfg = last.arg.cfg
        /\ last.pre.metrics.exists => metrics = last.pre.metrics
        /\ Files(DS) = Files(last.pre)
        /\ \A git \in BOOLEAN :
               /\ initialize(DS, cfg, git).cfg = cfg
               /\ initialize(DS, cfg, git).ds.metrics = metrics
               /\ Files(initialize(DS, cfg, git).ds) = Files(DS)

\* initialize(git=True) is called again on a dataset whose configuration
\* has been edited and which holds a parcel and its metrics row
C25_Witness ==
    /\ InitializeCalled /\ last.arg.git
    /\ last.arg.cfg.file /\ last.arg.cfg.cmd = "touch"
    /\ last.pre.repo.exists
    /\ data # {} /\ metrics.rows # <<>>

\* The call has made a commit
Committed ==
    last.op # "none" /\ Len(repo.commits) > Len(last.pre.repo.commits)

\* C26: a commit is made only in a dataset whose configuration enables git,
\* and never an empty one: the tree of a new commit differs from the tree
\* of the commit before it
C26_NoEmptyCommit ==
    Committed => (cfg.git /\ repo.head # last.pre.repo.head)

\* Two ids have been compared and both parse
ComparedIds ==
    last.op = "compare_ids" /\ last.ret.a.exc = "ok" /\ last.ret.b.exc = "ok"

\* C27: of two ids the pattern matches, the one that is smaller as a string
\* is the one whose parsed timestamp is earlier, and only that one
C27_LexIsChronological ==
    ComparedIds => (last.ret.less <=> last.ret.a.ret < last.ret.b.ret)

\* Parsing a duration
ParseDeltaCalled == last.op = "parse_delta"

\* The quantity the string gives a unit: that of the last token written in
\* any spelling of the unit, and 0 when there is none
LastQuantity(s, unit) ==
    LET at == {k \in 1..Len(s) : UNITS(s[k][2]) = unit}
    IN IF at = {} THEN 0
       ELSE s[CHOOSE k \in at : \A j \in at : j <= k][1]

\* C28: parse_delta returns the sum over the five units of the unit's
\* quantity times its length, the quantity of a unit written more than once
\* being that of its last occurrence, whatever the spellings (for durations
\* timedelta can hold)
C28_LastOccurrenceWins ==
    ParseDeltaCalled =>
        last.ret = LastQuantity(last.arg.s, "weeks") * 604800
                 + LastQuantity(last.arg.s, "days") * 86400
                 + LastQuantity(last.arg.s, "hours") * 3600
                 + LastQuantity(last.arg.s, "minutes") * 60
                 + LastQuantity(last.arg.s, "seconds")

\* "1w 1d 3 weeks": the weeks are written twice, in two spellings, around
\* another unit, and the result is three weeks and a day
C28_Witness ==
    /\ ParseDeltaCalled
    /\ last.arg.s = << <<1, "w">>, <<1, "d">>, <<3, "weeks">> >>
    /\ last.ret = 3 * 604800 + 86400

\* An operation that takes a parcel id was given one the pattern rejects
MalformedIdGiven ==
    /\ last.op \in {"run_export", "ingest_path", "collect_metrics"}
    /\ ~matches_format(last.arg.id)

\* C29: an operation given an id the pattern does not match raises the
\* format error and has changed nothing: no file is made or moved and the
\* metrics table is as it was
C29_MalformedIdRejected ==
    MalformedIdGiven => (last.exc = "ParcelIDFormat" /\ NothingChanged)

\* The export command is configured, a parcel exists and a file waits to be
\* ingested when the malformed id is given
C29_Witness ==
    /\ MalformedIdGiven
    /\ last.op \in {"run_export", "ingest_path"}
    /\ last.exc = "ParcelIDFormat"
    /\ data # {} /\ inbox # {}

\* The entries of a directory that the glob <id>* matches
Matches(dir, id) == {f \in dir : f.id = id}

\* More than one entry of data/, or more than one of incomplete/, matches
Ambiguous(ds, id) ==
    \/ Cardinality(Matches(ds.data, id)) > 1
    \/ Cardinality(Matches(ds.incomplete, id)) > 1

AmbiguousIds(ds) ==
    {f.id : f \in {g \in ds.data \cup ds.incomplete : Ambiguous(ds, g.id)}}

\* The operations that look one parcel's data up: data/ first, and
\* incomplete/ only when data/ holds no match
LooksUp == last.op \in {"is_known", "run_export", "collect_metrics"}

\* The lookup such an operation makes meets more than one match
LookupReached(ds, id) ==
    \/ Cardinality(Matches(ds.data, id)) > 1
    \/ /\ Matches(ds.data, id) = {}
       /\ Cardinality(Matches(ds.incomplete, id)) > 1

\* The parcels clean() has to remove: all but the last `keep` ids
Doomed(ds, keep) ==
    IF keep = <<>> \/ keep[1] <= 0 THEN {}
    ELSE {find_parcel_ids(ds)[i] : i \in 1..(Len(find_parcel_ids(ds)) - keep[1])}

\* A lookup in a directory holding more than one match raises the ambiguity
\* error
LookupsRaise ==
    /\ (last.op = "find_data"
            /\ Cardinality(Matches(last.pre.data, last.arg.id)) > 1)
           => last.exc = "Ambiguous"
    /\ (last.op = "find_incomplete"
            /\ Cardinality(Matches(last.pre.incomplete, last.arg.id)) > 1)
           => last.exc = "Ambiguous"

\* C30 (as stated): when more than one entry of data/ or of incomplete/
\* matches a parcel id, every lookup of that path raises the ambiguity error,
\* and is_known, runExport, collectMetrics and clean fail and leave the
\* ambiguity as it was.
C30_AmbiguityFailsEveryOperation ==
    /\ LookupsRaise
    /\ (LooksUp /\ Ambiguous(last.pre, last.arg.id))
           => (last.exc # "ok" /\ Ambiguous(DS, last.arg.id))
    /\ (last.op = "clean" /\ AmbiguousIds(last.pre) # {})
           => (last.exc # "ok" /\ AmbiguousIds(last.pre) \subseteq AmbiguousIds(DS))

\* C30 (amended): every lookup in a directory holding more than one match
\* raises the ambiguity error.  is_known, runExport and collectMetrics raise
\* it, changing nothing, when the lookup they make meets the ambiguity:
\* they look in data/ first and in incomplete/ only when data/ holds no
\* match, so with one complete entry and an ambiguous incomplete/ they behave
\* as for any complete parcel.  clean raises it exactly when an ambiguous
\* parcel is among those it has to remove.  No operation repairs the
\* ambiguity.
C30_AmbiguousLookupFails ==
    /\ LookupsRaise
    /\ (LooksUp /\ LookupReached(last.pre, last.arg.id))
           => (last.exc = "Ambiguous" /\ NothingChanged)
    /\ (LooksUp /\ Ambiguous(last.pre, last.arg.id)
                /\ ~LookupReached(last.pre, last.arg.id))
           => /\ last.exc = IF last.op = "run_export" THEN "ParcelExists"
                                                     ELSE "ok"
              /\ NothingChanged
    /\ last.op = "clean"
           => /\ last.exc = "Ambiguous"
                    <=> (Doomed(last.pre, last.arg.keep)
                            \cap AmbiguousIds(last.pre) # {})
              /\ AmbiguousIds(last.pre) \subseteq AmbiguousIds(DS)

\* clean() has removed an older parcel and then met a parcel with two
\* entries in data/, which are still there
C30_Witness ==
    /\ last.op = "clean"
    /\ last.exc = "Ambiguous"
    /\ DS # last.pre
    /\ \E id \in AmbiguousIds(DS) : Cardinality(Matches(data, id)) > 1

----------------------------------------------------------------------------
(* Retention in detail                                                     *)

\* The n greatest ids of S in the order of str
Greatest(S, n) == {x \in S : Cardinality({y \in S : LexLess(x, y)}) < n}

\* The entries of data/, incomplete/ and log/ that belong to a parcel
ArtifactsOf(ds, id) ==
    [data |-> {f \in ds.data : f.id = id},
     incomplete |-> {f \in ds.incomplete : f.id = id},
     log |-> {l \in ds.log : l.id = id}]

\* C31: when clean() returns on a dataset with keep = N > 0, the parcels
\* that still have an artifact are exactly the N greatest ids among those
\* that had one (all of them if there were N or fewer), complete or not;
\* nothing is left of the others, and the entries of the retained parcels are
\* as they were.
C31_KeepsGreatestWhole ==
    (last.op = "clean" /\ PositiveKeep /\ last.exc = "ok") =>
        /\ ArtifactIds(DS) = Greatest(ArtifactIds(last.pre), cfg.keep[1])
        /\ \A id \in ArtifactIds(DS) :
               ArtifactsOf(DS, id) = ArtifactsOf(last.pre, id)

\* clean() with keep = 1 has removed a complete parcel, with its logs, and
\* retained a newer one that has incomplete data only
C31_Witness ==
    /\ last.op = "clean" /\ PositiveKeep /\ last.exc = "ok"
    /\ cfg.keep[1] = 1
    /\ \E old \in ArtifactIds(last.pre) \ ArtifactIds(DS) :
           /\ ArtifactsOf(last.pre, old).data # {}
           /\ ArtifactsOf(last.pre, old).log # {}
    /\ \E id \in ArtifactIds(DS) :
           /\ ArtifactsOf(DS, id).data = {}
           /\ ArtifactsOf(DS, id).incomplete # {}

----------------------------------------------------------------------------
(* Properties of an export in progress                                     *)

\* The positions of _run_export between its guard and its final rename
BeforeRename == {"checked", "running", "exited", "found"}

\* C32: from the guard of _run_export to its rename (command not started,
\* running, exited, entry found but not moved) data/ holds nothing for the
\* id; the rename is reached only after the command has exited with status
\* zero; and a call that fails or is interrupted before the rename leaves
\* data/ without an entry for the id.
C32_CompleteOnlyAfterSuccess ==
    /\ \A c \in Solo :
           /\ calls[c].pc \in BeforeRename => Matches(data, calls[c].id) = {}
           /\ calls[c].pc \notin BeforeRename \cup {"idle"} => calls[c].exit = 0
    /\ (last.op = "export" /\ last.exc # "ok" /\ last.arg.pc \in BeforeRename)
           => Matches(data, last.arg.id) = {}

\* The call was interrupted after the command had exited with status zero
\* and before the rename: the parcel is left incomplete
C32_Witness ==
    /\ last.op = "export" /\ last.exc = "Interrupted"
    /\ last.arg.pc = "found"
    /\ Matches(incomplete, last.arg.id) # {}
    /\ Matches(data, last.arg.id) = {}

----------------------------------------------------------------------------
(* Scheduling after a failed export                                        *)

\* The parcels of an export that failed: the command was started, so the
\* logs are there, and data/ holds nothing for the id
FailedIds(ds) == {l.id : l \in ds.log} \ {f.id : f \in ds.data}

\* A failed export was attempted less than interval - margin ago (the
\* interval is ten minutes, the margin process() uses is the default one)
RecentFailure ==
    \E f \in FailedIds(last.pre) :
        now - TimestampOf(f) < 10 * 60 - DefaultMarginSeconds

\* C33: with an interval of ten minutes, a process() call made less than
\* interval - margin after a failed export starts no export and changes
\* nothing; no process() call touches what a failed export left; and an
\* export that process() does start runs under the id of the current time,
\* which no parcel had before.
C33_FailedExportCounts ==
    (ProcessCalled /\ cfg.interval = TenMinutes) =>
        /\ RecentFailure =>
               (last.exc = "ok" /\ last.ret.ids = <<>> /\ DS = last.pre)
        /\ \A f \in FailedIds(last.pre) :
               ArtifactsOf(DS, f) = ArtifactsOf(last.pre, f)
        /\ (last.exc = "ok" /\ last.ret.ids # <<>>) =>
               /\ last.ret.ids = <<new_parcel_id(now)>>
               /\ new_parcel_id(now) \notin ArtifactIds(last.pre)

\* The export of the first process() call failed; the second call, made
\* interval - margin later, has run a new export under a new id, and the
\* failed parcel is as it was
C33_Witness ==
    /\ ProcessCalled /\ cfg.interval = TenMinutes /\ last.exc = "ok"
    /\ \E f \in FailedIds(last.pre) :
           /\ now - TimestampOf(f) = 10 * 60 - DefaultMarginSeconds
           /\ f \in RowIds(last.pre)
           /\ last.ret.ids = <<new_parcel_id(now)>>
           /\ new_parcel_id(now) # f
           /\ Matches(data, new_parcel_id(now)) # {}

----------------------------------------------------------------------------
(* Ingestion and the due check                                             *)

\* process() has returned having ingested at least one path
IngestedSome == ProcessCalled /\ last.exc = "ok" /\ last.arg.found # <<>>

\* The ids _run_ingest gave to the paths, in the order of ingestion
IngestedIds == [k \in 1..Len(last.arg.found) |-> IngestId(last.arg.found[k])]

\* Less than interval - margin has passed since the time the id names
Recent(id) == now - TimestampOf(id) < 10 * 60 - DefaultMarginSeconds

\* C34 (as stated): when the ingestion of a process() call creates a parcel
\* less than interval - margin old, the call runs no export and returns the
\* ingested ids only; when the ingested parcels are older than that, it runs
\* the export and returns the ingested ids followed by the export id.
C34_DueByIngested ==
    IngestedSome =>
        IF \E id \in Range(IngestedIds) : Recent(id)
        THEN last.ret.ids = IngestedIds
        ELSE last.ret.ids = Append(IngestedIds, new_parcel_id(now))

\* C34 (amended): the due check is made after the ingestion and looks at
\* the newest extant parcel, ingested or not.  When that parcel is less than
\* interval - margin old (as it is when an ingested one is), no export is
\* run and the ingested ids are returned; otherwise the export is run and
\* the ingested ids are returned followed by the export id.
C34_DueAfterIngestion ==
    IngestedSome =>
        /\ Range(IngestedIds) \subseteq ExtantIds(DS)
        /\ IF Recent(Newest(ExtantIds(last.pre) \cup Range(IngestedIds)))
           THEN last.ret.ids = IngestedIds
           ELSE /\ last.ret.ids = Append(IngestedIds, new_parcel_id(now))
                /\ Matches(data, new_parcel_id(now)) # {}

\* On an empty dataset a file with an old mtime was ingested under the id of
\* its mtime, and the export has run in the same call
C34_Witness ==
    /\ IngestedSome /\ cfg.time_source = "mtime"
    /\ ExtantIds(last.pre) = {}
    /\ Len(last.ret.ids) = 2
    /\ ~Recent(last.ret.ids[1])
    /\ last.ret.ids[2] = new_parcel_id(now)
    /\ last.ret.errors = <<>>

----------------------------------------------------------------------------
(* Properties of reprocess_metrics                                         *)

ReprocessCalled == last.op = "reprocess_metrics" /\ last.exc = "ok"

\* The row of the table m for the parcel id
RowOf(m, id) == m.rows[CHOOSE k \in 1..Len(m.rows) : m.rows[k]["parcel_id"] = id]

\* C35: after reprocess_metrics(ids) has returned, every id of ids has a row
\* whose success is Y exactly if data/ holds the parcel at that moment, and
\* the row of every id that is not in ids is still there with every
\* non-empty value it had.
C35_ReprocessReflectsState ==
    ReprocessCalled =>
        /\ \A id \in Range(last.arg.ids) :
               /\ id \in RowIds(DS)
               /\ RowOf(metrics, id)["success"] = "Y" <=> Matches(data, id) # {}
               /\ RowOf(metrics, id)["success"] \in {"Y", "N"}
        /\ \A id \in RowIds(last.pre) \ Range(last.arg.ids) :
               /\ id \in RowIds(DS)
               /\ \A col \in DOMAIN RowOf(last.pre.metrics, id) :
                      RowOf(last.pre.metrics, id)[col] # "" =>
                          /\ col \in DOMAIN RowOf(metrics, id)
                          /\ RowOf(metrics, id)[col]
                                 = RowOf(last.pre.metrics, id)[col]

\* A parcel recorded as incomplete was moved into data/ and reprocessed: its
\* row has flipped from N to Y, next to the row of a parcel that was not in
\* the batch and has kept its measurements
C35_Witness ==
    /\ ReprocessCalled
    /\ \E id \in Range(last.arg.ids) :
           /\ id \in RowIds(last.pre)
           /\ RowOf(last.pre.metrics, id)["success"] = "N"
           /\ RowOf(metrics, id)["success"] = "Y"
    /\ \E other \in RowIds(last.pre) \ Range(last.arg.ids) :
           /\ "files" \in DOMAIN RowOf(metrics, other)
           /\ RowOf(metrics, other)["files"] = "1"

----------------------------------------------------------------------------
(* Complete and incomplete data                                            *)

\* C36: on a dataset that started empty and on which a single caller has
\* run exports, ingestions, metric recomputations, process() and clean(), no
\* parcel id has an entry in data/ and an entry in incomplete/, and no id has
\* more than one entry in data/.
C36_CompleteXorIncomplete ==
    \A id \in ArtifactIds(DS) :
        /\ ~(Matches(data, id) # {} /\ Matches(incomplete, id) # {})
        /\ Cardinality(Matches(data, id)) <= 1

\* An ingestion under the id of a parcel that has incomplete data only was
\* refused: the dataset holds an exported parcel, an ingested one and a
\* failed one
C36_Witness ==
    /\ last.op = "ingest_path" /\ last.exc = "ParcelExists"
    /\ Matches(incomplete, last.arg.id) # {}
    /\ inbox # {}
    /\ \E f \in data : f.bytes = 0

----------------------------------------------------------------------------
(* Reuse of parcel ids                                                     *)

\* _run_export or ingest_path was called with an id that has a metrics row
RowIdGiven ==
    /\ last.op \in {"run_export", "ingest_path"}
    /\ last.arg.id \in RowIds(last.pre)

\* C37: once perform_export or ingest_path has recorded a metrics row for
\* an id, every _run_export and every ingest_path with that id raises
\* ParcelExists and changes nothing, also when clean() has removed every
\* artifact of the parcel; and no row is ever dropped from the table.
C37_RowIdNeverReused ==
    /\ RowIdGiven => (last.exc = "ParcelExists" /\ NothingChanged)
    /\ RowIds(last.pre) \subseteq RowIds(DS)

\* clean() has removed every artifact of a recorded parcel, and an export
\* under its id was refused
C37_Witness ==
    /\ RowIdGiven /\ last.op = "run_export"
    /\ last.arg.id \notin ArtifactIds(last.pre)
    /\ last.exc = "ParcelExists"
    /\ last.arg.o.exit = 0

----------------------------------------------------------------------------
(* What process() returns                                                  *)

\* C38: every id that process() returns with an empty error list names a
\* parcel that has an entry in data/; with an interval and no cmd, process()
\* returns no id and leaves metrics.csv as it was.
C38_ReturnedIdsAreComplete ==
    (ProcessCalled /\ last.exc = "ok" /\ last.ret.errors = <<>>) =>
        /\ \A id \in Range(last.ret.ids) : Matches(data, id) # {}
        /\ (cfg.cmd = "" /\ cfg.interval # <<>>) =>
               (last.ret.ids = <<>> /\ metrics = last.pre.metrics)

----------------------------------------------------------------------------
(* Two callers at once                                                     *)

\* The export of caller c has just returned
JustReturned(c) ==
    last.op = "export" /\ last.exc = "ok" /\ last.arg.caller = c

\* Both callers have passed the guard of _run_export with the same id and
\* neither has gone further
BothPassedGuard ==
    /\ \A c \in Callers : calls[c].pc = "checked"
    /\ \A c, d \in Callers : calls[c].id = calls[d].id

\* A parcel that perform_export completed has no row
LostRow == \E f \in data : f.id \notin RowIds(DS)

\* C39: nothing protects the dataset from two callers.  The table a call
\* leaves is made of the rows it read and its own row, whatever the other
\* caller wrote in between; and two callers that ask is_known() for the same
\* id before either has created an artifact both pass the guard.
C39_NoProtection ==
    /\ \A c \in Callers :
           JustReturned(c) =>
               RowIds(DS) = {calls[c].read.rows[k]["parcel_id"] :
                                k \in 1..Len(calls[c].read.rows)}
                            \cup {calls[c].id}
    /\ BothPassedGuard =>
           \A c \in Callers : calls[c].id \notin KnownIds(DS)

\* Two exports that overlapped are complete and the row of one of them is
\* missing from the table; now both callers have passed the guard for the
\* same new id
C39_Witness ==
    /\ BothPassedGuard
    /\ LostRow
    /\ \A f \in data : \A c \in Callers : f.id # calls[c].id
    /\ incomplete = {}
    /\ Cardinality(data) = 2

============================================================================
